---- MODULE Spec2Model ----
(***************************************************************************)
(* A model of the PsychoJS core: the task scheduler (Task Queue,           *)
(* Conditional Branch, Resource Gate) and the experiment orchestrator      *)
(* (PsychoJS.start / PsychoJS.quit / the unload listener), and three of     *)
(* the stimuli: the animated GIF sprite, the drag of a visual stimulus and *)
(* the restricted text input.                                              *)
(*                                                                         *)
(* src/src/core/PsychoJS.js is the orchestrator.  util/Scheduler.js and    *)
(* core/ServerManager.js are imported by it (lines 15 and 20) but are not  *)
(* part of the sources at hand: the scheduler and the session calls are    *)
(* modelled from the design document (sections 3, 4.1-4.4).                *)
(***************************************************************************)
EXTENDS Integers, Sequences, FiniteSets, TLC

VARIABLES
    scheduler,   \* PsychoJS._scheduler: the top-level queue [kind, tasks, status]
    built,       \* history: the top-level queue as inserted (nothing ever removed)
    execLog,     \* history: every step invocation so far, [id, sig], in order
    predLog,     \* history: ids of the conditional branches whose predicate was invoked
    lastTick,    \* history: what the most recent tick() on the top-level queue did
    busyTicks,   \* history: number of tick() calls made while a leaf step was pending
    discarded,   \* history: [id, at, by]: step id was pending when, after at invocations,
                 \*          a step returned STOP (by = "STOP") or stop() was called (by = "stop")
    nextId,      \* id given to the next task added at run time
    resources,   \* ServerManager._resources: name -> status ("NONE" = no record)
    gatePoll,    \* history: the most recent poll of a Resource Gate, with the
                 \*          statuses of the records at that tick
    status,      \* PsychoJS.status
    opts,        \* constructor options and the page: [autoStartScheduler, checkWebGLSupport,
                 \*          webGL (supported by the browser), isHost (served by a known host),
                 \*          noOutput (the URL of the page carries __noOutput),
                 \*          completionUrl, cancellationUrl, href (the URL of the
                 \*          page), hosts (the hosts passed to the constructor),
                 \*          params (the query parameters of the page)]
    gif,         \* an AnimatedGIF: its fields, the listeners it has on the shared
                 \*          ticker, and what its last call did ("none": no sprite)
    stim,        \* a VisualStim: its drag fields ("none": no stimulus)
    input,       \* a TextInput: its text and restriction ("none": no input)
    serverMsg,   \* PsychoJS._serverMsg: [defined, entries], entries the set of
                 \*          <<key, value>> pairs of the board
    saveResults, \* PsychoJS._saveResults
    config,      \* PsychoJS._config: [environment, name, saveFormat, saveIncompleteResults,
                 \*          intervalId, period, lastUploadTimestamp, URL, projectId]
    experiment,  \* PsychoJS._experiment: [defined, experimentEnded, isCompleted]
    window,      \* PsychoJS._window: "undefined", "open" or "closed"
    session,     \* the status of the remote session, kept by the ServerManager
    listeners,   \* [beforeunload, unload]: the listeners registered on the page
    startPc,     \* where the call of start() is: idle, configuring, opening, dialog, done, failed
    quits,       \* the calls of quit(): [pc, isCompleted, showOK, isServerEnv, closer]
    unloaded,    \* the page has been unloaded
    unloadLog,   \* history: what the unload listener did, in the order it did it
    windowLog,   \* history: [made, error]: the Windows built so far, the origin of the
                 \*          error the last call of openWindow() threw
    nClose,      \* history: number of close requests sent to the server
    closeCalls,  \* history: number of closeSession() calls made once the session was opened
    statusLog,   \* history: the changes of status so far, as pairs <<from, to>>
    startLog,    \* history: [failedAt, status, starts]: the step at which start() failed,
                 \*          the status it left when it rejected, the calls of scheduler.start();
                 \*          [error, expName, fetches, response]: the error start() rejected
                 \*          with, its expName argument, the calls of getConfiguration() and
                 \*          the configuration it fetched; [opens]: the calls of
                 \*          openSession()
    saves        \* history: the saves of the results and the flushes of the logs
                 \*          requested so far, by who requested them

schedVars == <<scheduler, built, execLog, predLog, lastTick, busyTicks, discarded, nextId>>

\* the stimuli, which the scheduler and the orchestrator never touch
widgetVars == <<gif, stim, input>>

\* what the scheduler operations other than tick() leave alone
runVars == <<status, opts, serverMsg, widgetVars, saveResults, config, experiment, window,
             session, listeners, startPc, quits, unloaded, unloadLog, windowLog, nClose,
             closeCalls, statusLog, startLog, saves>>

\* what the scheduler operations other than tick() leave alone
resVars == <<resources, gatePoll, runVars>>

vars == <<scheduler, built, execLog, predLog, lastTick, busyTicks, discarded, nextId,
          resources, gatePoll,
          status, opts, serverMsg, gif, stim, input, saveResults, config, experiment,
          window, session, listeners, startPc, quits, unloaded, unloadLog, windowLog,
          nClose, closeCalls, statusLog, startLog, saves>>

----------------------------------------------------------------------------
(* Bounds *)

\* a step returns CONTINUE at most MaxRepeat times before its final signal
MaxRepeat == 1
\* number of tasks added to the top-level queue by schedule() and scheduleCondition()
MaxAdds == 3
\* number of frames on which a Resource Gate finds a resource still pending
MaxPolls == 2
\* number of calls of quit() in a run
MaxQuits == 2
\* calls of quit() made by the script in a run with periodic uploads
MaxScriptQuits == 1

----------------------------------------------------------------------------
(* Tasks *)

Names == {"A", "B"}

Terminal == {"DOWNLOADED", "ERROR"}

Behaviours == [conts : 0..MaxRepeat, final : {"NEXT", "STOP"}]

\* the steps that return their final signal at once
Finals == { b \in Behaviours : b.conts = 0 }

Step(i, b) == [kind |-> "step", id |-> i, conts |-> b.conts, final |-> b.final]

Queue(tasks) == [kind |-> "queue", tasks |-> tasks, status |-> "NOT_STARTED"]

Branch(i, p, thenTasks, elseTasks) ==
    [kind |-> "branch", id |-> i, pred |-> p,
     thenQ |-> Queue(thenTasks), elseQ |-> Queue(elseTasks)]

\* the names of the Resource Records registered so far
Registered == { n \in Names : resources[n] # "NONE" }

\* the task returned by waitForResources(names); asked is the list the caller
\* passed and at, for an empty list, the records that were registered when
\* the task was made
Gate(i, names) ==
    [kind |-> "gate", id |-> i, names |-> names, asked |-> names,
     at |-> IF names = {} THEN Registered ELSE {}]

----------------------------------------------------------------------------
(* Resource Gate (design 4.3) *)

\* mutant of GateSignal: a record that ended in ERROR keeps the gate closed
GateSignalDownloadedOnly(names) ==
    IF \A n \in names : resources[n] = "DOWNLOADED" THEN "NEXT" ELSE "CONTINUE"

\* one poll of the gate: NEXT once every named record is DOWNLOADED or ERROR
GateSignal(names) ==
    IF \A n \in names : resources[n] \in Terminal THEN "NEXT" ELSE "CONTINUE"

----------------------------------------------------------------------------
(* Task Queue: tick() (design 4.1, 4.2) *)

\* what one call of tick() on a queue yields: the queue afterwards, the signal
\* reported to the caller, whether a step returned STOP, and the record of
\* what was invoked (ran, preds) and how many finished sub-schedulers were popped
Result(q, sig, stop, ran, preds, pops) ==
    [q |-> q, sig |-> sig, stop |-> stop, ran |-> ran, preds |-> preds, pops |-> pops]

RECURSIVE TickQ(_)

\* the signal a step (or gate) returns when invoked
Invoke(task) ==
    IF task.kind = "gate" THEN GateSignal(task.names)
    ELSE IF task.conts > 0 THEN "CONTINUE" ELSE task.final

\* the step after an invocation that returned CONTINUE
Repeated(task) ==
    IF task.kind = "step" THEN [task EXCEPT !.conts = @ - 1] ELSE task

\* tick() on a queue with no task left
OnEmpty(q) ==
    Result([q EXCEPT !.status = IF @ = "RUNNING" THEN "STOPPED" ELSE @],
           "STOPPED", FALSE, <<>>, <<>>, 0)

\* mutant of OnNext: after a NEXT the following task runs in the same call
OnNextRunsOn(q, entry) ==
    LET r == TickQ([q EXCEPT !.tasks = Tail(@), !.status = "RUNNING"])
    IN  [r EXCEPT !.ran = <<entry>> \o @]

\* the head step returned NEXT: pop it
OnNext(q, entry) ==
    Result([q EXCEPT !.tasks = Tail(@),
                     !.status = IF Len(q.tasks) = 1 THEN "STOPPED" ELSE "RUNNING"],
           "NEXT", FALSE, <<entry>>, <<>>, 0)

\* the head step returned CONTINUE: it stays in place
OnContinue(q, entry) ==
    Result([q EXCEPT !.tasks[1] = Repeated(@), !.status = "RUNNING"],
           "CONTINUE", FALSE, <<entry>>, <<>>, 0)

\* the head step returned STOP: clear the entire queue
OnStop(q, entry) ==
    Result([q EXCEPT !.tasks = <<>>, !.status = "STOPPED"],
           "STOPPED", TRUE, <<entry>>, <<>>, 0)

\* the queue a conditional branch is replaced by
Chosen(b) == IF b.pred THEN b.thenQ ELSE b.elseQ

\* the head branch node is replaced in place by the chosen queue
Substitute(q) == [q EXCEPT !.tasks[1] = Chosen(@)]

\* mutant of Evaluated: the branch node is put back while the chosen queue goes on
EvaluatedKeepsNode(b, r) ==
    IF r.stop \/ r.pops > 0 \/ r.q.tasks = <<>>
    THEN [r EXCEPT !.preds = <<b.id>> \o @]
    ELSE [r EXCEPT !.preds = <<b.id>> \o @,
                   !.q.tasks[1] = [b EXCEPT !.thenQ = r.q.tasks[1],
                                            !.elseQ = r.q.tasks[1]]]

\* the result of the tick that invoked the predicate of branch b
Evaluated(b, r) == [r EXCEPT !.preds = <<b.id>> \o @]

\* mutant of Abort: a sub-scheduler stopped by STOP is popped like a finished one
AbortPopsOnly(q, sub) ==
    LET r == TickQ([q EXCEPT !.tasks = Tail(@)])
    IN  [r EXCEPT !.ran = sub.ran \o @, !.preds = sub.preds \o @,
                  !.pops = @ + sub.pops + 1]

\* the head sub-scheduler reported a STOP: the parent is cleared as well
Abort(q, sub) ==
    Result([q EXCEPT !.tasks = <<>>, !.status = "STOPPED"],
           "STOPPED", TRUE, sub.ran, sub.preds, sub.pops)

\* the head sub-scheduler goes on: it stays the head
Delegate(q, sub) ==
    Result([q EXCEPT !.tasks[1] = sub.q, !.status = "RUNNING"],
           sub.sig, FALSE, sub.ran, sub.preds, sub.pops)

\* mutant of Unwind: popping a finished sub-scheduler uses up the tick
UnwindNextTick(q, sub) ==
    Result([q EXCEPT !.tasks = Tail(@), !.status = "RUNNING"],
           "NEXT", FALSE, sub.ran, sub.preds, sub.pops + 1)

\* the head sub-scheduler has nothing left: pop it and re-tick the parent in
\* the same call
Unwind(q, sub) ==
    LET r == TickQ([q EXCEPT !.tasks = Tail(@)])
    IN  [r EXCEPT !.ran = sub.ran \o @, !.preds = sub.preds \o @,
                  !.pops = @ + sub.pops + 1]

TickQ(q) ==
    IF q.tasks = <<>> THEN OnEmpty(q)
    ELSE LET head == Head(q.tasks) IN
         CASE head.kind \in {"step", "gate"} ->
                LET sig == Invoke(head)
                    entry == [id |-> head.id, sig |-> sig]
                IN  IF sig = "NEXT" THEN OnNext(q, entry)
                    ELSE IF sig = "CONTINUE" THEN OnContinue(q, entry)
                    ELSE OnStop(q, entry)
           [] head.kind = "branch" -> Evaluated(head, TickQ(Substitute(q)))
           [] head.kind = "queue" ->
                LET sub == TickQ(head)
                IN  IF sub.stop THEN Abort(q, sub)
                    ELSE IF sub.sig = "STOPPED" THEN Unwind(q, sub)
                    ELSE Delegate(q, sub)

----------------------------------------------------------------------------
(* What a queue holds *)

RECURSIVE StepIds(_)
\* the ids of all the steps of a queue, at any depth, both alternatives of
\* every branch included
StepIds(q) ==
    UNION { LET t == q.tasks[i] IN
            CASE t.kind \in {"step", "gate"} -> {t.id}
              [] t.kind = "queue" -> StepIds(t)
              [] t.kind = "branch" -> StepIds(t.thenQ) \cup StepIds(t.elseQ)
          : i \in 1..Len(q.tasks) }

RECURSIVE Leaves(_)
\* the steps and gates of a queue, at any depth
Leaves(q) ==
    UNION { LET t == q.tasks[i] IN
            CASE t.kind \in {"step", "gate"} -> {t}
              [] t.kind = "queue" -> Leaves(t)
              [] t.kind = "branch" -> Leaves(t.thenQ) \cup Leaves(t.elseQ)
          : i \in 1..Len(q.tasks) }

RECURSIVE Pending(_)
\* a leaf step of the queue is still to be invoked
Pending(q) ==
    \E i \in 1..Len(q.tasks) :
        LET t == q.tasks[i] IN
        CASE t.kind \in {"step", "gate"} -> TRUE
          [] t.kind = "queue" -> Pending(t)
          [] t.kind = "branch" -> Pending(IF t.pred THEN t.thenQ ELSE t.elseQ)

RECURSIVE Branches(_)
\* the branch nodes of a queue, at any depth
Branches(q) ==
    UNION { LET t == q.tasks[i] IN
            CASE t.kind \in {"step", "gate"} -> {}
              [] t.kind = "queue" -> Branches(t)
              [] t.kind = "branch" -> {t} \cup Branches(t.thenQ) \cup Branches(t.elseQ)
          : i \in 1..Len(q.tasks) }

RECURSIVE Queues(_)
\* the queues of a queue: itself, its sub-schedulers and the alternatives of
\* its branches, at any depth
Queues(q) ==
    {q} \cup
    UNION { LET t == q.tasks[i] IN
            CASE t.kind \in {"step", "gate"} -> {}
              [] t.kind = "queue" -> Queues(t)
              [] t.kind = "branch" -> Queues(t.thenQ) \cup Queues(t.elseQ)
          : i \in 1..Len(q.tasks) }

----------------------------------------------------------------------------
(* Task Queue: add, addConditional, start, stop (design 4.1, 4.2) *)

\* mutant of Add: the task is put at the head
AddFirst(q, task) ==
    [q EXCEPT !.tasks = <<task>> \o @,
              !.status = IF @ = "STOPPED" THEN "RUNNING" ELSE @]

\* add(task): append; a STOPPED queue is RUNNING again
\* mutant of Add: a stopped queue stays stopped
AddKeepsStopped(q, task) == [q EXCEPT !.tasks = Append(@, task)]

Add(q, task) ==
    [q EXCEPT !.tasks = Append(@, task),
              !.status = IF @ = "STOPPED" THEN "RUNNING" ELSE @]

\* addConditional(predicate, thenQueue, elseQueue): one task
AddConditional(q, i, predicate, thenQueue, elseQueue) ==
    Add(q, [kind |-> "branch", id |-> i, pred |-> predicate,
            thenQ |-> thenQueue, elseQ |-> elseQueue])

\* start(): RUNNING
Start(q) == [q EXCEPT !.status = "RUNNING"]

\* stop(): STOPPED, the remaining tasks are discarded
Stop(q) == [q EXCEPT !.status = "STOPPED", !.tasks = <<>>]

----------------------------------------------------------------------------
(* The flows the model starts from *)

\* flows of up to four steps and two branches; b gives each step its
\* behaviour, p each predicate its value
Flows(b, p) ==
    { <<>>,
      <<Step(1, b[1]), Step(2, b[2]), Step(3, b[3])>>,
      <<Step(1, b[1]), Queue(<<Step(2, b[2]), Step(3, b[3])>>), Step(4, b[4])>>,
      <<Queue(<<Queue(<<Step(1, b[1])>>), Step(2, b[2])>>), Step(3, b[3])>>,
      <<Step(1, b[1]), Branch(11, p[1], <<Step(2, b[2])>>, <<Step(3, b[3])>>),
        Step(4, b[4])>>,
      <<Queue(<<>>), Step(1, b[1]), Queue(<<Queue(<<>>)>>), Step(2, b[2]), Queue(<<>>)>>,
      <<Queue(<<Step(1, b[1]), Branch(11, p[1], <<Step(2, b[2])>>, <<>>)>>),
        Step(3, b[3])>>,
      <<Branch(11, p[1],
               <<Branch(12, p[2], <<Step(1, b[1])>>, <<Step(2, b[2])>>)>>,
               <<Step(3, b[3])>>),
        Step(4, b[4])>> }

\* PsychoJS._config before _configure() has run
NoConfig == [environment |-> "undefined", name |-> "undefined", saveFormat |-> "undefined",
             saveIncompleteResults |-> FALSE, intervalId |-> -1, period |-> -1,
             lastUploadTimestamp |-> "undefined",
             URL |-> "undefined", projectId |-> "undefined"]

\* no configuration fetched yet
NoResponse == [rejected |-> FALSE, keys |-> {}, URL |-> "undefined",
               projectId |-> "undefined", saveIncomplete |-> FALSE]

\* PsychoJS._experiment before start() has built the experiment handler
NoExperiment == [defined |-> FALSE, experimentEnded |-> FALSE, isCompleted |-> FALSE]

\* a call of quit() that has not been made
----------------------------------------------------------------------------
(* The page: its URL, the approved hosts, its query parameters *)

\* a string is kept as the sequence of its parts; s.indexOf(t) is the place
\* of the first occurrence of t in s, counted from 0, and -1 if there is none
Occurrences(s, t) ==
    { k \in 0..(Len(s) - Len(t)) : SubSeq(s, k + 1, k + Len(t)) = t }

IndexOf(s, t) ==
    IF Occurrences(s, t) = {} THEN -1
    ELSE CHOOSE k \in Occurrences(s, t) : \A m \in Occurrences(s, t) : k <= m

\* the hosts the constructor always approves
PavloviaHosts ==
    { <<"https://", "devlovia.org/", "run/">>,
      <<"https://", "pavlovia.org/", "run/">>,
      <<"https://", "run.", "devlovia.org/">>,
      <<"https://", "run.", "pavlovia.org/">> }

\* this._hosts
Hosts(hosts) == PavloviaHosts \cup hosts

\* mutant of IsHost: the URL of the page holds an approved host somewhere
IsHostAnywhere(hosts, href) == \E url \in Hosts(hosts) : IndexOf(href, url) >= 0

\* _configure(): the page is served by an approved host
IsHost(hosts, href) == \E url \in Hosts(hosts) : IndexOf(href, url) = 0

\* an experiment served by pavlovia.org, and one opened from the local machine
PavloviaHref == <<"https://", "pavlovia.org/", "run/", "lab/", "exp/">>

LocalHref == <<"http://", "localhost/", "exp/">>

NoOutputKey == <<"__", "noOutput">>

PilotTokenKey == <<"__", "pilotToken">>

\* mutant of Board: every parameter with a double underscore in its key
BoardOfAnyUnderscores(params) ==
    { e \in params : IndexOf(e[1], <<"__">>) >= 0 }

\* _configure(): the parameters whose key starts with a double underscore
Board(params) == { e \in params : IndexOf(e[1], <<"__">>) = 0 }

\* this._serverMsg before _configure() has made it
NoBoard == [defined |-> FALSE, entries |-> {}]

\* serverMsg.has(key)
Has(board, key) == \E e \in board.entries : e[1] = key

\* serverMsg.get(key)
Get(board, key) == (CHOOSE e \in board.entries : e[1] = key)[2]

\* start(): the pilotToken among the parameters of openSession()
PilotParam(board) ==
    IF Has(board, PilotTokenKey) THEN Get(board, PilotTokenKey) ELSE "undefined"

NoQuit == [pc |-> "idle", isCompleted |-> FALSE, showOK |-> FALSE,
           isServerEnv |-> FALSE, closer |-> FALSE, location |-> "none"]

\* the runs explored: on a browser without WebGL the dialog of start() is shown
\* exactly when checkWebGLSupport is set; without the check start() goes on as
\* it does on a browser with WebGL
Flags == [autoStartScheduler : BOOLEAN, checkWebGLSupport : BOOLEAN,
          isHost : BOOLEAN, noOutput : BOOLEAN]

\* new PsychoJS({autoStartScheduler, checkWebGLSupport, hosts}) on the page at
\* href with the query parameters params; isHost and noOutput tell what
\* _configure() will find there
OnPage(f, href, hosts, params) ==
    [autoStartScheduler |-> f.autoStartScheduler,
     checkWebGLSupport |-> f.checkWebGLSupport, webGL |-> FALSE,
     isHost |-> f.isHost, noOutput |-> f.noOutput,
     completionUrl |-> "undefined", cancellationUrl |-> "undefined",
     href |-> href, hosts |-> hosts, params |-> params]

Options ==
    { OnPage(f, IF f.isHost THEN PavloviaHref ELSE LocalHref, {},
             IF f.noOutput THEN {<<NoOutputKey, "">>} ELSE {}) : f \in Flags }

\* the options a constructor call leaves unset
DefaultOptions == [autoStartScheduler |-> TRUE, checkWebGLSupport |-> FALSE,
                   webGL |-> TRUE, isHost |-> FALSE, noOutput |-> FALSE,
                   completionUrl |-> "undefined", cancellationUrl |-> "undefined",
                   href |-> LocalHref, hosts |-> {}, params |-> {}]

\* no stimulus has been made
NoWidgets ==
    /\ gif = "none"
    /\ stim = "none"
    /\ input = "none"

\* the fields of new PsychoJS(o), with saveResults = save
Orchestrator(o, save) ==
    /\ status = "NOT_CONFIGURED"
    /\ opts = o
    /\ serverMsg = NoBoard
    /\ saveResults = save
    /\ config = NoConfig
    /\ experiment = NoExperiment
    /\ window = "undefined"
    /\ session = "UNCONFIGURED"
    /\ listeners = [beforeunload |-> FALSE, unload |-> FALSE]
    /\ startPc = "idle"
    /\ quits = [i \in 1..MaxQuits |-> NoQuit]
    /\ unloaded = FALSE
    /\ unloadLog = <<>>
    /\ windowLog = [made |-> 0, error |-> "none"]
    /\ nClose = 0
    /\ closeCalls = 0
    /\ statusLog = {}
    /\ startLog = [failedAt |-> "none", status |-> "none", starts |-> 0,
                   error |-> "none", expName |-> "none", fetches |-> 0,
                   response |-> NoResponse, opens |-> 0, resources |-> {},
                   pilotToken |-> "undefined"]
    /\ saves = {}

\* new PsychoJS(o), with saveResults = save, and no stimulus
Constructed(o, save) ==
    /\ Orchestrator(o, save)
    /\ NoWidgets

\* no Resource Record yet, no gate polled yet
NoPoll == [names |-> {}, asked |-> {}, at |-> {}, sig |-> "NONE",
           seen |-> [n \in Names |-> "NONE"]]

InitResources ==
    /\ resources = [n \in Names |-> "NONE"]
    /\ gatePoll = NoPoll

NoTick == [sig |-> "NONE", ran |-> <<>>, preds |-> <<>>, pops |-> 0]

InitScheduler(tasks) ==
    /\ scheduler = Queue(tasks)
    /\ built = Queue(tasks)
    /\ execLog = <<>>
    /\ predLog = <<>>
    /\ lastTick = NoTick
    /\ busyTicks = 0
    /\ discarded = {}
    /\ nextId = 1

Init ==
    /\ \E b \in [1..4 -> Behaviours], p \in [1..2 -> BOOLEAN] :
           \E tasks \in Flows(b, p) : InitScheduler(tasks)
    /\ InitResources
    /\ Constructed(DefaultOptions, TRUE)

----------------------------------------------------------------------------
(* Scheduler operations *)

\* the tasks a caller may add while the model runs: a step that returns NEXT
\* or STOP at once, a step that returns CONTINUE once, a sub-scheduler
NewTasks ==
    { Step(nextId, b) : b \in Finals }
    \cup { Step(nextId, [conts |-> 1, final |-> "NEXT"]),
           Queue(<<Step(nextId, [conts |-> 0, final |-> "NEXT"])>>) }

CanAdd == nextId <= 2 * MaxAdds

\* PsychoJS.schedule(task, args)
schedule(task) ==
    /\ CanAdd
    /\ scheduler' = Add(scheduler, task)
    /\ built' = [built EXCEPT !.tasks = Append(@, task)]
    /\ nextId' = nextId + 2
    /\ UNCHANGED <<execLog, predLog, lastTick, busyTicks, discarded, resVars>>

\* mutant of scheduleCondition: the two schedulers are handed over in the wrong order
scheduleConditionSwapped(condition, thenScheduler, elseScheduler) ==
    /\ CanAdd
    /\ scheduler' = AddConditional(scheduler, 20 + nextId, condition,
                                   elseScheduler, thenScheduler)
    /\ built' = [built EXCEPT !.tasks = Append(@,
                     [kind |-> "branch", id |-> 20 + nextId, pred |-> condition,
                      thenQ |-> thenScheduler, elseQ |-> elseScheduler])]
    /\ nextId' = nextId + 2
    /\ UNCHANGED <<execLog, predLog, lastTick, busyTicks, discarded, resVars>>

\* PsychoJS.scheduleCondition(condition, thenScheduler, elseScheduler)
scheduleCondition(condition, thenScheduler, elseScheduler) ==
    /\ CanAdd
    /\ scheduler' = AddConditional(scheduler, 20 + nextId, condition,
                                   thenScheduler, elseScheduler)
    /\ built' = [built EXCEPT !.tasks = Append(@,
                     [kind |-> "branch", id |-> 20 + nextId, pred |-> condition,
                      thenQ |-> thenScheduler, elseQ |-> elseScheduler])]
    /\ nextId' = nextId + 2
    /\ UNCHANGED <<execLog, predLog, lastTick, busyTicks, discarded, resVars>>

\* the step or gate that was inserted with id i
LeafOf(i) == CHOOSE t \in Leaves(built) : t.id = i

\* the index in ran of the first invocation that returned STOP, 0 if none
StopIndex(ran) ==
    IF \E k \in 1..Len(ran) : ran[k].sig \in {"STOP", "THROW"}
    THEN CHOOSE k \in 1..Len(ran) :
             /\ ran[k].sig \in {"STOP", "THROW"}
             /\ \A m \in 1..(k - 1) : ran[m].sig \notin {"STOP", "THROW"}
    ELSE 0

\* one externally driven tick() on the top-level queue
tick ==
    LET r == TickQ(scheduler)
        k == StopIndex(r.ran)
    IN  /\ scheduler' = r.q
        /\ execLog' = execLog \o r.ran
        /\ predLog' = predLog \o r.preds
        /\ lastTick' = [sig |-> r.sig, ran |-> r.ran, preds |-> r.preds, pops |-> r.pops]
        /\ busyTicks' = IF Pending(scheduler) THEN busyTicks + 1 ELSE busyTicks
        /\ discarded' =
               IF k = 0 THEN discarded
               ELSE discarded \cup
                    { [id |-> i, at |-> Len(execLog) + k, by |-> "STOP"] :
                      i \in StepIds(scheduler) \ { r.ran[m].id : m \in 1..k } }
        /\ gatePoll' =
               IF r.ran # <<>> /\ LeafOf(r.ran[1].id).kind = "gate"
               THEN [names |-> LeafOf(r.ran[1].id).names,
                     asked |-> LeafOf(r.ran[1].id).asked,
                     at |-> LeafOf(r.ran[1].id).at, sig |-> r.ran[1].sig,
                     seen |-> resources]
               ELSE gatePoll
        /\ UNCHANGED <<built, nextId, resources, runVars>>

\* Scheduler.start()
schedulerStart ==
    /\ scheduler.status = "NOT_STARTED"
    /\ scheduler' = Start(scheduler)
    /\ UNCHANGED <<built, execLog, predLog, lastTick, busyTicks, discarded, nextId, resVars>>

\* Scheduler.stop()
schedulerStop ==
    /\ scheduler.status # "STOPPED"
    /\ scheduler' = Stop(scheduler)
    /\ discarded' = discarded \cup
           { [id |-> i, at |-> Len(execLog), by |-> "stop"] : i \in StepIds(scheduler) }
    /\ UNCHANGED <<built, execLog, predLog, lastTick, busyTicks, nextId, resVars>>

Next ==
    \/ schedulerStart
    \/ tick
    \/ schedulerStop

\* the scheduler ticked from a flow built beforehand
Spec == Init /\ [][Next]_vars

\* the flow is built by schedule() and scheduleCondition() while it runs
InitBuild ==
    /\ InitScheduler(<<>>)
    /\ InitResources
    /\ Constructed(DefaultOptions, TRUE)

NextBuild ==
    \/ \E task \in NewTasks : schedule(task)
    \/ \E c \in BOOLEAN, b1, b2 \in Finals :
           /\ b1 # b2
           /\ scheduleCondition(c, Queue(<<Step(nextId, b1)>>),
                                   Queue(<<Step(nextId + 1, b2)>>))
    \/ schedulerStart
    \/ tick
    \/ schedulerStop

SpecBuild == InitBuild /\ [][NextBuild]_vars

----------------------------------------------------------------------------
(* Properties of the scheduler *)

\* the ids of the steps invoked so far
Ran == { execLog[k].id : k \in 1..Len(execLog) }

NoStop == \A k \in 1..Len(execLog) : execLog[k].sig # "STOP"

\* the steps a queue holds directly, in the order of insertion
DirectSteps(q) == SelectSeq(q.tasks, LAMBDA t : t.kind \in {"step", "gate"})

ReturnedNextBefore(i, k) ==
    \E m \in 1..(k - 1) : execLog[m].id = i /\ execLog[m].sig = "NEXT"

\* step i left its queue before the k-th invocation without returning NEXT:
\* it returned STOP, or was pending when a STOP or stop() cleared the queue
DiscardedBefore(i, k) ==
    \/ \E d \in discarded : d.id = i /\ d.at < k
    \/ \E m \in 1..(k - 1) : execLog[m].id = i /\ execLog[m].sig = "STOP"

\* the alternative of a branch that the value of its predicate rules out
Unchosen(b) == IF b.pred THEN b.elseQ ELSE b.thenQ

\* the alternative of a branch that the value of its predicate selects
Selected(b) == IF b.pred THEN b.thenQ ELSE b.elseQ

\* C1: once a step has returned STOP, no step that was pending at that point
\* (the later steps of its queue, the remaining steps of every enclosing
\* queue) is invoked, neither later in the same tick nor in any later tick.
C1_StopAbortsEnclosingQueues ==
    \A d \in discarded :
        d.by = "STOP" => \A j \in (d.at + 1)..Len(execLog) : execLog[j].id # d.id

\* a step nested in a sub-scheduler returned STOP while a later step of its
\* queue and a step of the enclosing queue were pending, and the queue was
\* ticked again afterwards
C1_Witness ==
    /\ Len(execLog) = 2
    /\ execLog[2] = [id |-> 2, sig |-> "STOP"]
    /\ {d.id : d \in discarded} = {3, 4}
    /\ Len(built.tasks) = 3 /\ built.tasks[2].kind = "queue"
    /\ lastTick.ran = <<>> /\ lastTick.sig = "STOPPED"

C3_OneStepPerTick == Len(lastTick.ran) <= 1

\* a tick that substituted a branch and popped two finished sub-schedulers
\* invoked one step
C3_Witness ==
    /\ lastTick.preds # <<>>
    /\ lastTick.pops >= 2
    /\ Len(lastTick.ran) = 1

\* C4: within one queue the steps are invoked in the order of insertion: a
\* step is invoked only after every step inserted before it in that queue has
\* returned NEXT (or has left the queue by a STOP or by stop(), the queue
\* having been added to afterwards), and after a step returned CONTINUE the
\* next invocation is of that same step.
C4_InsertionOrder ==
    /\ \A q \in Queues(built) :
           LET s == DirectSteps(q) IN
           \A i, j \in 1..Len(s) :
               i < j =>
               \A k \in 1..Len(execLog) :
                   execLog[k].id = s[j].id =>
                       \/ ReturnedNextBefore(s[i].id, k)
                       \/ DiscardedBefore(s[i].id, k)
    /\ \A k \in 1..(Len(execLog) - 1) :
           execLog[k].sig = "CONTINUE" =>
               \/ execLog[k + 1].id = execLog[k].id
               \/ DiscardedBefore(execLog[k].id, k + 1)

\* three steps scheduled one after the other have run, one of them twice
C4_Witness ==
    /\ NoStop
    /\ discarded = {}
    /\ Len(DirectSteps(built)) = 3
    /\ Len(execLog) = 4
    /\ \E k \in 1..3 : execLog[k].sig = "CONTINUE"
    /\ ~Pending(scheduler)

\* C5: the predicate of a branch is invoked once: never twice, and before
\* any step of its alternatives is invoked.
C5_PredicateOnce ==
    /\ \A i, j \in 1..Len(predLog) : i # j => predLog[i] # predLog[j]
    /\ \A b \in Branches(built) :
           (Ran \cap (StepIds(b.thenQ) \cup StepIds(b.elseQ)) # {}) =>
               \E i \in 1..Len(predLog) : predLog[i] = b.id

\* the step of the chosen queue returned CONTINUE and was invoked again on a
\* later tick
C5_Witness ==
    \E b \in Branches(built) :
        /\ \E i \in 1..Len(predLog) : predLog[i] = b.id
        /\ \E k \in 1..(Len(execLog) - 1) :
               /\ execLog[k].id \in StepIds(Selected(b))
               /\ execLog[k].sig = "CONTINUE"
               /\ execLog[k + 1].id = execLog[k].id

\* the branch whose predicate a tick invoked
BranchOf(i) == CHOOSE b \in Branches(built) : b.id = i

\* the flow [stepA -> NEXT, branch(false, [stepB], [stepC -> STOP]), stepD]
ScenarioBuilt ==
    /\ Len(built.tasks) >= 3
    /\ built.tasks[1].kind = "step"
    /\ built.tasks[1].conts = 0 /\ built.tasks[1].final = "NEXT"
    /\ built.tasks[2].kind = "branch"
    /\ built.tasks[2].pred = FALSE
    /\ Len(built.tasks[2].thenQ.tasks) = 1
    /\ Len(built.tasks[2].elseQ.tasks) = 1
    /\ built.tasks[2].elseQ.tasks[1].final = "STOP"
    /\ built.tasks[2].elseQ.tasks[1].conts = 0
    /\ built.tasks[3].kind = "step"

\* C6: a branch is replaced by thenQueue when its predicate holds and by
\* elseQueue otherwise: no step of the other queue is ever invoked, the tick
\* that invokes the predicate goes to the chosen queue and, in the flow
\* [stepA -> NEXT, branch(false, [stepB], [stepC -> STOP]), stepD], neither
\* stepB nor a stepD that was in the queue when stepC ran is invoked.
C6_BranchChoice ==
    /\ \A b \in Branches(built) : Ran \cap StepIds(Unchosen(b)) = {}
    /\ \A n \in 1..Len(lastTick.preds) :
           LET b == BranchOf(lastTick.preds[n]) IN
           Pending(Selected(b)) =>
               /\ lastTick.ran # <<>>
               /\ lastTick.ran[1].id \in StepIds(Selected(b))
    /\ ScenarioBuilt =>
           /\ built.tasks[2].thenQ.tasks[1].id \notin Ran
           /\ (\E d \in discarded : d.id = built.tasks[3].id /\ d.by = "STOP")
                  => built.tasks[3].id \notin Ran

\* the flow of the scenario was built and ticked until stepC returned STOP,
\* and ticked once more
C6_Witness ==
    /\ ScenarioBuilt
    /\ Len(execLog) = 2
    /\ execLog[2] = [id |-> built.tasks[2].elseQ.tasks[1].id, sig |-> "STOP"]
    /\ \E d \in discarded : d.id = built.tasks[3].id
    /\ lastTick.ran = <<>> /\ lastTick.sig = "STOPPED"

----------------------------------------------------------------------------
(* Resources and the Resource Gate (design 3, 4.3, 4.4) *)

\* ServerManager.waitForResources(names): an empty list stands for all the
\* records registered so far
GateOver(i, names) ==
    [Gate(i, IF names = {} THEN Registered ELSE names) EXCEPT
         !.asked = names, !.at = Gate(i, names).at]

\* PsychoJS.waitForResources(resources)
waitForResources(i, names) == GateOver(i, names)

\* ServerManager.prepareResources(list): a record per declared resource
prepareResources(names) ==
    /\ names # {}
    /\ names \cap Registered = {}
    /\ resources' = [n \in Names |-> IF n \in names THEN "REGISTERED" ELSE resources[n]]
    /\ UNCHANGED <<schedVars, gatePoll, runVars>>

\* the download of a registered resource begins
downloadStart(n) ==
    /\ resources[n] = "REGISTERED"
    /\ resources' = [resources EXCEPT ![n] = "DOWNLOADING"]
    /\ UNCHANGED <<schedVars, gatePoll, runVars>>

\* the download of a resource ends well
downloadDone(n) ==
    /\ resources[n] = "DOWNLOADING"
    /\ resources' = [resources EXCEPT ![n] = "DOWNLOADED"]
    /\ UNCHANGED <<schedVars, gatePoll, runVars>>

\* the download of a resource fails
downloadError(n) ==
    /\ resources[n] = "DOWNLOADING"
    /\ resources' = [resources EXCEPT ![n] = "ERROR"]
    /\ UNCHANGED <<schedVars, gatePoll, runVars>>

\* the number of polls so far that found a resource pending
Continues == Cardinality({ k \in 1..Len(execLog) : execLog[k].sig = "CONTINUE" })

\* a frame of the flow; the frames on which a gate keeps waiting are capped
frame ==
    /\ TickQ(scheduler).sig = "CONTINUE" => Continues < MaxPolls
    /\ tick

NextGate ==
    \/ \E names \in SUBSET Names : prepareResources(names)
    \/ \E n \in Names : downloadStart(n)
    \/ \E n \in Names : downloadDone(n)
    \/ \E n \in Names : downloadError(n)
    \/ \E names \in (SUBSET Registered) \ {{}} :
           schedule(waitForResources(nextId, names))
    \/ schedule(Step(nextId, [conts |-> 0, final |-> "NEXT"]))
    \/ frame

\* a flow that waits for named resources while they download (the gates made
\* with an empty list are those of SpecLocal)
SpecGate == InitBuild /\ [][NextGate]_vars

\* C7: a poll of a Resource Gate returns NEXT exactly when every record it
\* names is DOWNLOADED or ERROR at that tick, and CONTINUE when some named
\* record is REGISTERED or DOWNLOADING; the gate names registered records only.
C7_GateOpensOnTerminal ==
    gatePoll.sig # "NONE" =>
        /\ gatePoll.sig \in {"NEXT", "CONTINUE"}
        /\ gatePoll.sig = "NEXT" <=>
               \A n \in gatePoll.names : gatePoll.seen[n] \in {"DOWNLOADED", "ERROR"}
        /\ (\E n \in gatePoll.names : gatePoll.seen[n] \in {"REGISTERED", "DOWNLOADING"})
               => gatePoll.sig = "CONTINUE"
        /\ \A n \in gatePoll.names : gatePoll.seen[n] # "NONE"

\* a gate over both records was polled while one was pending and returned
\* CONTINUE, and was polled again with one record DOWNLOADED and the other in
\* ERROR and returned NEXT, and the step after it ran
C7_Witness ==
    /\ gatePoll.names = Names
    /\ gatePoll.sig = "NEXT"
    /\ \E n \in Names : gatePoll.seen[n] = "ERROR"
    /\ \E n \in Names : gatePoll.seen[n] = "DOWNLOADED"
    /\ \E k \in 1..Len(execLog) : execLog[k].sig = "CONTINUE"
    /\ Len(execLog) >= 3
    /\ LeafOf(execLog[Len(execLog)].id).kind = "step"

----------------------------------------------------------------------------
(* The orchestrator: PsychoJS.start() *)

\* PsychoJS.Status: STOPPED is the same Symbol as FINISHED
Status == [NOT_CONFIGURED |-> "NOT_CONFIGURED", CONFIGURING |-> "CONFIGURING",
           CONFIGURED |-> "CONFIGURED", STARTED |-> "STARTED", PAUSED |-> "PAUSED",
           FINISHED |-> "FINISHED", STOPPED |-> "FINISHED", ERROR |-> "ERROR"]

\* the log of the changes of status, after to is written over from
Logged(log, from, to) == IF from = to THEN log ELSE log \cup {<<from, to>>}

\* the variables of the flow that the orchestrator never writes
flowHist == <<built, execLog, predLog, lastTick, busyTicks, nextId, gatePoll>>

\* the records after ServerManager.prepareResources(names)
Prepared(names) ==
    [n \in Names |-> IF n \in names /\ resources[n] = "NONE" THEN "REGISTERED"
                     ELSE resources[n]]

\* new ExperimentHandler(...)
NewExperiment == [defined |-> TRUE, experimentEnded |-> FALSE, isCompleted |-> FALSE]

\* mutant of LocalConfig: the incomplete results are not kept
LocalConfigDropsIncomplete(name) ==
    [NoConfig EXCEPT !.environment = "LOCAL", !.name = name, !.saveFormat = "CSV"]

\* the ad-hoc configuration of an experiment that no known host serves
LocalConfig(name) ==
    [NoConfig EXCEPT !.environment = "LOCAL", !.name = name, !.saveFormat = "CSV",
                     !.saveIncompleteResults = TRUE]

\* the keys a fetched configuration may hold, blocks and their fields
Keys == {"psychoJsManager", "experiment", "experiment.name", "experiment.fullpath",
         "experiment.fullPath", "pavlovia", "pavlovia.URL", "gitlab", "gitlab.projectId"}

\* the block a key lies in
BlockOf(k) ==
    IF k \in {"experiment.name", "experiment.fullpath", "experiment.fullPath"}
    THEN "experiment"
    ELSE IF k = "pavlovia.URL" THEN "pavlovia"
    ELSE IF k = "gitlab.projectId" THEN "gitlab"
    ELSE k

LegacyURL == "https://pavlovia.org"

\* the configurations getConfiguration() may resolve with
Responses ==
    { r \in [rejected : {FALSE}, keys : SUBSET Keys, URL : {LegacyURL, "https://host.org"},
             projectId : {"p1", "p2"}, saveIncomplete : BOOLEAN] :
        /\ \A k \in r.keys : BlockOf(k) \in r.keys
        /\ "pavlovia.URL" \notin r.keys => r.URL = LegacyURL
        /\ "gitlab.projectId" \notin r.keys => r.projectId = "p1" }

\* getConfiguration() rejects
Rejected == [NoResponse EXCEPT !.rejected = TRUE]

\* the keys once a legacy psychoJsManager block is replaced by a pavlovia block
Legacy(keys) ==
    IF "psychoJsManager" \in keys
    THEN (keys \ {"psychoJsManager"}) \cup {"pavlovia", "pavlovia.URL"}
    ELSE keys

\* mutant of Missing: the name of the experiment is not looked for
MissingSkipsName(keys) ==
    IF "experiment" \notin keys THEN "missing experiment block in configuration"
    ELSE IF "experiment.fullpath" \notin keys
    THEN "missing fullpath in experiment block in configuration"
    ELSE IF "pavlovia" \notin keys THEN "missing pavlovia block in configuration"
    ELSE IF "pavlovia.URL" \notin keys THEN "missing URL in pavlovia block in configuration"
    ELSE IF "gitlab" \notin keys THEN "missing gitlab block in configuration"
    ELSE IF "gitlab.projectId" \notin keys
    THEN "missing projectId in gitlab block in configuration"
    ELSE "none"

\* the tests for the essential blocks: what _configure() throws, if anything
Missing(keys) ==
    IF "experiment" \notin keys THEN "missing experiment block in configuration"
    ELSE IF "experiment.name" \notin keys
    THEN "missing name in experiment block in configuration"
    ELSE IF "experiment.fullpath" \notin keys
    THEN "missing fullpath in experiment block in configuration"
    ELSE IF "pavlovia" \notin keys THEN "missing pavlovia block in configuration"
    ELSE IF "pavlovia.URL" \notin keys THEN "missing URL in pavlovia block in configuration"
    ELSE IF "gitlab" \notin keys THEN "missing gitlab block in configuration"
    ELSE IF "gitlab.projectId" \notin keys
    THEN "missing projectId in gitlab block in configuration"
    ELSE "none"

\* mutant of Stored: the URL of the server is not read from the configuration
StoredDefaultURL(r, env) ==
    [NoConfig EXCEPT !.environment = env,
                     !.name = IF "experiment.name" \in r.keys THEN "name" ELSE "undefined",
                     !.saveIncompleteResults = r.saveIncomplete,
                     !.URL = LegacyURL,
                     !.projectId = IF "gitlab.projectId" \in r.keys THEN r.projectId
                                   ELSE "undefined"]

\* PsychoJS._config once the fetched configuration r is assigned to it
Stored(r, env) ==
    [NoConfig EXCEPT !.environment = env,
                     !.name = IF "experiment.name" \in r.keys THEN "name" ELSE "undefined",
                     !.saveIncompleteResults = r.saveIncomplete,
                     !.URL = IF "psychoJsManager" \in r.keys THEN LegacyURL
                             ELSE IF "pavlovia.URL" \in r.keys THEN r.URL
                             ELSE "undefined",
                     !.projectId = IF "gitlab.projectId" \in r.keys THEN r.projectId
                                   ELSE "undefined"]

\* the configuration read from the server, once validated
ServerConfig(r) == Stored(r, "SERVER")

\* mutant of CatchStart: the failure is swallowed, the status stays as it was
CatchStartKeeps(cur) == cur

\* the catch clause of start(): the status it leaves before it rethrows
CatchStart(cur) == Status.ERROR

\* mutant of StartTail: the scheduler is started, the resources are not prepared
StartTailSkipsPrepare(names) ==
    LET dialog == opts.checkWebGLSupport /\ ~opts.webGL
        go == ~dialog /\ opts.autoStartScheduler
    IN  /\ resources' = resources
        /\ status' = IF go THEN Status.STARTED ELSE status
        /\ statusLog' = Logged(statusLog, status, status')
        /\ startPc' = IF dialog THEN "dialog" ELSE "done"
        /\ scheduler' = IF go THEN Start(scheduler) ELSE scheduler
        /\ startLog' = [startLog EXCEPT !.starts = IF go THEN @ + 1 ELSE @,
                                        !.resources = names]

\* mutant of StartTail: an empty list stands for every known resource
StartTailPreparesAll(names) ==
    LET dialog == opts.checkWebGLSupport /\ ~opts.webGL
        go == ~dialog /\ opts.autoStartScheduler
    IN  /\ resources' = Prepared(IF names = {} THEN Names ELSE names)
        /\ status' = IF go THEN Status.STARTED ELSE status
        /\ statusLog' = Logged(statusLog, status, status')
        /\ startPc' = IF dialog THEN "dialog" ELSE "done"
        /\ scheduler' = IF go THEN Start(scheduler) ELSE scheduler
        /\ startLog' = [startLog EXCEPT !.starts = IF go THEN @ + 1 ELSE @,
                                        !.resources = names]

\* mutant of StartTail: the scheduler is started while the dialog is shown
StartTailStartsAtOnce(names) ==
    LET dialog == opts.checkWebGLSupport /\ ~opts.webGL
        go == opts.autoStartScheduler
    IN  /\ resources' = Prepared(names)
        /\ status' = IF go THEN Status.STARTED ELSE status
        /\ statusLog' = Logged(statusLog, status, status')
        /\ startPc' = IF dialog THEN "dialog" ELSE "done"
        /\ scheduler' = IF go THEN Start(scheduler) ELSE scheduler
        /\ startLog' = [startLog EXCEPT !.starts = IF go THEN @ + 1 ELSE @,
                                        !.resources = names]

\* start(), from prepareResources() to its end
StartTail(names) ==
    LET dialog == opts.checkWebGLSupport /\ ~opts.webGL
        go == ~dialog /\ opts.autoStartScheduler
    IN  /\ resources' = Prepared(names)
        /\ status' = IF go THEN Status.STARTED ELSE status
        /\ statusLog' = Logged(statusLog, status, status')
        /\ startPc' = IF dialog THEN "dialog" ELSE "done"
        /\ scheduler' = IF go THEN Start(scheduler) ELSE scheduler
        /\ startLog' = [startLog EXCEPT !.starts = IF go THEN @ + 1 ELSE @,
                                        !.resources = names]

\* mutant of Arms: the timer is armed whether the results are saved or not
ArmsOnPeriod(save, period) == period > 0

\* mutant of Arms: a period of 0 arms the timer
ArmsNonNegative(save, period) == save /\ period >= 0

\* start() arms the periodic upload of the results
Arms(save, period) == save /\ period > 0

\* start() is called: _configure() runs up to getConfiguration() on a known
\* host, and to its end otherwise
startCall(expName) ==
    /\ ~unloaded
    /\ startPc = "idle"
    /\ IF IsHost(opts.hosts, opts.href)
       THEN /\ statusLog' = Logged(statusLog, status, Status.CONFIGURING)
            /\ status' = Status.CONFIGURING
            /\ startPc' = "configuring"
            /\ startLog' = [startLog EXCEPT !.expName = expName, !.fetches = @ + 1]
            /\ UNCHANGED <<config, serverMsg, saveResults>>
       ELSE /\ config' = LocalConfig(expName)
            /\ serverMsg' = [defined |-> TRUE, entries |-> Board(opts.params)]
            /\ saveResults' = IF Has(serverMsg', NoOutputKey) THEN FALSE
                               ELSE saveResults
            /\ statusLog' = Logged(Logged(statusLog, status, Status.CONFIGURING),
                                   Status.CONFIGURING, Status.CONFIGURED)
            /\ status' = Status.CONFIGURED
            /\ startPc' = "configured"
            /\ startLog' = [startLog EXCEPT !.expName = expName]
    /\ UNCHANGED <<scheduler, discarded, flowHist, resources, opts, widgetVars, experiment, window,
                   session, listeners, quits, unloaded, unloadLog, windowLog, nClose,
                   closeCalls, saves>>

\* getConfiguration() settles: the configuration is validated, the experiment
\* handler is built and openSession() is called; or start() rejects
gotConfiguration(r) ==
    /\ ~unloaded
    /\ startPc = "configuring"
    /\ IF ~r.rejected /\ Missing(Legacy(r.keys)) = "none"
       THEN /\ config' = ServerConfig(r)
            /\ serverMsg' = [defined |-> TRUE, entries |-> Board(opts.params)]
            /\ saveResults' = IF Has(serverMsg', NoOutputKey) THEN FALSE
                               ELSE saveResults
            /\ session' = "CONFIGURED"
            /\ statusLog' = Logged(statusLog, status, Status.CONFIGURED)
            /\ status' = Status.CONFIGURED
            /\ experiment' = NewExperiment
            /\ startPc' = "opening"
            /\ startLog' = [startLog EXCEPT !.response = r, !.opens = @ + 1,
                                            !.pilotToken = PilotParam(serverMsg')]
       ELSE /\ session' = IF r.rejected THEN "ERROR" ELSE "CONFIGURED"
            /\ config' = IF r.rejected THEN config ELSE Stored(r, "undefined")
            /\ statusLog' = Logged(statusLog, status, CatchStart(status))
            /\ status' = CatchStart(status)
            /\ startPc' = "failed"
            /\ startLog' = [startLog EXCEPT
                                !.failedAt = "configure",
                                !.status = CatchStart(status),
                                !.response = r,
                                !.error = IF r.rejected THEN "getConfiguration"
                                          ELSE Missing(Legacy(r.keys))]
            /\ UNCHANGED <<serverMsg, saveResults, experiment>>
    /\ UNCHANGED <<scheduler, discarded, flowHist, resources, opts, widgetVars, window, listeners,
                   quits, unloaded, unloadLog, windowLog, nClose, closeCalls, saves>>

\* start() resumes after _configure() in the local environment
startConfigured(names) ==
    /\ ~unloaded
    /\ startPc = "configured"
    /\ experiment' = NewExperiment
    /\ StartTail(names)
    /\ UNCHANGED <<discarded, flowHist, opts, serverMsg, widgetVars, saveResults, config, window, session,
                   listeners, quits, unloaded, unloadLog, windowLog, nClose, closeCalls,
                   saves>>

\* the periods of the upload of the results that openSession() may leave in
\* the configuration, in minutes: none, zero, one
Periods == {-1, 0, 1}

\* openSession() settles, leaving the period of the uploads in the
\* configuration: the listeners are registered, the periodic upload is armed
\* and start() runs to its end; or start() rejects
sessionOpened(ok, period, names) ==
    /\ ~unloaded
    /\ startPc = "opening"
    /\ IF ok
       THEN /\ session' = "OPEN"
            /\ listeners' = [beforeunload |-> TRUE, unload |-> TRUE]
            /\ config' = [config EXCEPT
                              !.period = period,
                              !.intervalId = IF Arms(saveResults, period) THEN 1 ELSE @]
            /\ StartTail(names)
       ELSE /\ session' = "ERROR"
            /\ statusLog' = Logged(statusLog, status, CatchStart(status))
            /\ status' = CatchStart(status)
            /\ startPc' = "failed"
            /\ startLog' = [startLog EXCEPT !.failedAt = "openSession",
                                            !.status = CatchStart(status),
                                            !.error = "openSession"]
            /\ UNCHANGED <<listeners, config, resources, scheduler>>
    /\ UNCHANGED <<discarded, flowHist, opts, serverMsg, widgetVars, saveResults, experiment, window, quits,
                   unloaded, unloadLog, windowLog, nClose, closeCalls, saves>>

\* an upload of the results is skipped when the last one is too recent (design
\* 4.4): with the time of an upload kept in the configuration ("recent") the
\* next one is skipped unless enough time has passed
Throttled(stamp) == stamp = "recent"

\* the saves recorded for a save of the given kind made at shutdown that finds
\* this timestamp: skipped if it can be
Saved(kind, stamp) ==
    IF ~Throttled(stamp) THEN {kind}
    ELSE IF kind = "quit" THEN {"quit skipped"} ELSE {"unload skipped"}

\* the timer armed by start() fires and the results so far are uploaded, the
\* last upload being old enough (nothing happens when it is too recent)
upload ==
    /\ ~unloaded
    /\ config.intervalId > 0
    /\ saves' = saves \cup {"periodic"}
    /\ config' = [config EXCEPT !.lastUploadTimestamp = "recent"]
    /\ UNCHANGED <<schedVars, resources, gatePoll, status, opts, serverMsg, widgetVars, saveResults,
                   experiment, window, session, listeners, startPc, quits, unloaded,
                   unloadLog, windowLog,
                   nClose, closeCalls, statusLog, startLog>>

\* the participant accepts software emulation in the WebGL dialog
dialogOK ==
    /\ ~unloaded
    /\ startPc = "dialog"
    /\ statusLog' = Logged(statusLog, status, Status.STARTED)
    /\ status' = Status.STARTED
    /\ scheduler' = Start(scheduler)
    /\ startLog' = [startLog EXCEPT !.starts = @ + 1]
    /\ startPc' = "done"
    /\ UNCHANGED <<discarded, flowHist, resources, opts, serverMsg, widgetVars, saveResults, config, experiment,
                   window, session, listeners, quits, unloaded, unloadLog, windowLog,
                   nClose, closeCalls,
                   saves>>

\* mutant of HasWindow: a window that was closed does not count
HasWindowOpen(w) == w = "open"

\* typeof this._window !== "undefined"
HasWindow(w) == w # "undefined"

\* PsychoJS.openWindow()
openWindow ==
    /\ ~unloaded
    /\ IF HasWindow(window)
       THEN /\ windowLog' = [windowLog EXCEPT !.error = "PsychoJS.openWindow"]
            /\ UNCHANGED window
       ELSE /\ windowLog' = [made |-> windowLog.made + 1, error |-> "none"]
            /\ window' = "open"
    /\ UNCHANGED <<schedVars, resources, gatePoll, status, opts, serverMsg, widgetVars, saveResults, config,
                   experiment, session, listeners, startPc, quits, unloaded, unloadLog,
                   nClose, closeCalls, statusLog, startLog, saves>>

\* the first call of openWindow()
openWindowOnce ==
    /\ window = "undefined"
    /\ openWindow

----------------------------------------------------------------------------
(* The orchestrator: PsychoJS.quit() and the unload listener *)

\* the session has been opened at some point
WasOpened == session \in {"OPEN", "CLOSING", "CLOSED"} \/ nClose > 0

\* mutant of CloseRequested: closeSession() sends a request whatever the session is in
CloseRequestedAlways(s) == s \in {"OPEN", "CLOSING", "CLOSED", "ERROR"}

\* ServerManager.closeSession() sends a close request only for an OPEN session
\* (design 4.4, 5, 8: a second invocation is a no-op)
CloseRequested(s) == s = "OPEN"

\* a call of ServerManager.closeSession(), if made
closeSession(made) ==
    LET req == made /\ CloseRequested(session)
    IN  /\ session' = IF req THEN "CLOSING" ELSE session
        /\ nClose' = IF req THEN nClose + 1 ELSE nClose
        /\ closeCalls' = IF made /\ WasOpened THEN closeCalls + 1 ELSE closeCalls

\* where quit() goes once the session is dealt with: the dialog, or onTerminate()
\* at once, which throws without a window
QuitEnd(showOK) ==
    IF showOK THEN "dialog" ELSE IF window = "undefined" THEN "threw" ELSE "done"

\* where quit() goes once the results are dealt with
AfterSave(q) == IF q.isServerEnv THEN "closing" ELSE QuitEnd(q.showOK)

\* the save or the flush quit() requests as it moves on to next; stamp is the
\* time of the last upload as save() finds it
Requested(next, stamp) ==
    CASE next = "saving" -> Saved("quit", stamp)
      [] next = "flushing" -> {"flush"}
      [] OTHER -> {}

\* mutant of Redirect: the participant is sent to the completion URL whenever
\* there is one
RedirectWhenSet(isCompleted, completionUrl, cancellationUrl) ==
    IF completionUrl # "undefined" THEN completionUrl
    ELSE IF ~isCompleted /\ cancellationUrl # "undefined" THEN cancellationUrl
    ELSE "none"

\* onTerminate(): where window.location is sent, "none" if it is left alone
Redirect(isCompleted, completionUrl, cancellationUrl) ==
    IF isCompleted /\ completionUrl # "undefined" THEN completionUrl
    ELSE IF ~isCompleted /\ cancellationUrl # "undefined" THEN cancellationUrl
    ELSE "none"

\* call i of quit() moves on to next within the try block; cur is the status,
\* log the changes of status and stamp the time of the last upload at this
\* point of the call
Landing(i, q, next, cur, log, stamp) ==
    LET new == CASE next = "threw" -> Status.ERROR
                 [] next = "done" -> Status.FINISHED
                 [] OTHER -> cur
    IN  /\ quits' = [quits EXCEPT ![i] =
                        [q EXCEPT !.pc = next,
                                  !.closer = @ \/ (next = "closing" /\ CloseRequested(session)),
                                  !.location =
                                      IF next = "done"
                                      THEN Redirect(q.isCompleted, opts.completionUrl,
                                                    opts.cancellationUrl)
                                      ELSE @]]
        /\ saves' = saves \cup Requested(next, stamp)
        /\ statusLog' = Logged(log, cur, new)
        /\ status' = new
        /\ window' = IF next = "done" THEN "closed" ELSE window

\* an awaited call of quit() rejects: the catch clause
Thrown(i) ==
    /\ quits' = [quits EXCEPT ![i].pc = "threw"]
    /\ statusLog' = Logged(statusLog, status, Status.ERROR)
    /\ status' = Status.ERROR
    /\ UNCHANGED <<window, saves>>

\* mutant of IsServerEnv: quit() takes every run for a run on the server
IsServerEnvAlways(env) == TRUE

\* getEnvironment() === ExperimentHandler.Environment.SERVER
IsServerEnv(env) == env = "SERVER"

\* mutant of ClearedByQuit: quit() keeps the time of the last upload
KeptByQuit(stamp) == stamp

\* quit() deletes resultsUpload.lastUploadTimestamp
ClearedByQuit(stamp) == "undefined"

\* the unload listener deletes resultsUpload.lastUploadTimestamp
ClearedByUnload(stamp) == "undefined"

\* mutant of DoSave: quit() saves nothing
DoSaveNever(isCompleted, saveIncomplete, save) == FALSE

\* mutant of DoSave: the results of an incomplete run are never saved
DoSaveCompletedOnly(isCompleted, saveIncomplete, save) == isCompleted /\ save

\* quit() saves the results and flushes the logs
DoSave(isCompleted, saveIncomplete, save) == (isCompleted \/ saveIncomplete) /\ save

\* quit({isCompleted, showOK}) up to its first await
quitBody(i, isCompleted, showOK) ==
    /\ ~unloaded
    /\ quits[i].pc = "idle"
    /\ IF i = 1 THEN TRUE ELSE quits[i - 1].pc # "idle"
    /\ IF ~experiment.defined
       THEN /\ quits' = [quits EXCEPT ![i].pc = "typeError"]
            /\ UNCHANGED <<status, statusLog, window, session, nClose, closeCalls,
                           experiment, scheduler, discarded, listeners, config, saves>>
       ELSE LET srv == IsServerEnv(config.environment)
                q == [NoQuit EXCEPT !.isCompleted = isCompleted, !.showOK = showOK,
                                    !.isServerEnv = srv]
                doSave == DoSave(isCompleted, config.saveIncompleteResults, saveResults)
                next == IF doSave THEN "saving" ELSE AfterSave(q)
                stamp == ClearedByQuit(config.lastUploadTimestamp)
            IN  /\ experiment' = [experiment EXCEPT !.experimentEnded = TRUE,
                                                     !.isCompleted = isCompleted]
                /\ scheduler' = Stop(scheduler)
                /\ discarded' = discarded \cup
                       { [id |-> j, at |-> Len(execLog), by |-> "stop"] :
                         j \in StepIds(scheduler) }
                /\ listeners' = [listeners EXCEPT !.beforeunload = IF srv THEN FALSE ELSE @]
                /\ config' = [config EXCEPT
                                  !.intervalId = IF @ > 0 THEN -1 ELSE @,
                                  !.lastUploadTimestamp =
                                      IF doSave /\ ~Throttled(stamp) THEN "recent"
                                      ELSE stamp]
                /\ Landing(i, q, next, Status.STOPPED,
                           Logged(statusLog, status, Status.STOPPED), stamp)
                /\ closeSession(next = "closing")
    /\ UNCHANGED <<flowHist, resources, opts, serverMsg, widgetVars, saveResults, unloaded, unloadLog,
                   windowLog, startLog>>

\* the script calls quit()
quit(i, isCompleted, showOK) ==
    /\ quitBody(i, isCompleted, showOK)
    /\ UNCHANGED startPc

\* the participant cancels in the WebGL dialog: quit() with its defaults
dialogCancel ==
    /\ startPc = "dialog"
    /\ startPc' = "done"
    /\ \E i \in 1..MaxQuits : quitBody(i, FALSE, TRUE)

\* what the steps of quit() after its first await leave alone
quitFrame == <<schedVars, resources, gatePoll, opts, serverMsg, widgetVars, saveResults, config, experiment,
               listeners, startPc, unloaded, unloadLog, windowLog, startLog>>

\* experiment.save() settles
quitSaved(i, ok) ==
    /\ ~unloaded
    /\ quits[i].pc = "saving"
    /\ IF ok THEN Landing(i, quits[i], "flushing", status, statusLog,
                          config.lastUploadTimestamp) ELSE Thrown(i)
    /\ UNCHANGED <<session, nClose, closeCalls>>
    /\ UNCHANGED quitFrame

\* logger.flush() settles
quitFlushed(i, ok) ==
    /\ ~unloaded
    /\ quits[i].pc = "flushing"
    /\ IF ok
       THEN /\ Landing(i, quits[i], AfterSave(quits[i]), status, statusLog,
                       config.lastUploadTimestamp)
            /\ closeSession(quits[i].isServerEnv)
       ELSE /\ Thrown(i)
            /\ UNCHANGED <<session, nClose, closeCalls>>
    /\ UNCHANGED quitFrame

\* the closeSession() awaited by quit() settles; only a request can fail
quitClosed(i, ok) ==
    /\ ~unloaded
    /\ quits[i].pc = "closing"
    /\ IF ok
       THEN /\ Landing(i, quits[i], QuitEnd(quits[i].showOK), status, statusLog,
                       config.lastUploadTimestamp)
            /\ session' = IF quits[i].closer /\ session = "CLOSING" THEN "CLOSED"
                          ELSE session
       ELSE /\ quits[i].closer
            /\ Thrown(i)
            /\ session' = "ERROR"
    /\ UNCHANGED <<nClose, closeCalls>>
    /\ UNCHANGED quitFrame

\* the participant presses OK in the closing dialog: onTerminate()
quitOK(i) ==
    /\ ~unloaded
    /\ quits[i].pc = "dialog"
    /\ IF window = "undefined"
       THEN /\ quits' = [quits EXCEPT ![i].pc = "typeError"]
            /\ UNCHANGED <<status, statusLog, window>>
       ELSE /\ quits' = [quits EXCEPT
                             ![i].pc = "done",
                             ![i].location = Redirect(quits[i].isCompleted,
                                                      opts.completionUrl,
                                                      opts.cancellationUrl)]
            /\ statusLog' = Logged(statusLog, status, Status.FINISHED)
            /\ status' = Status.FINISHED
            /\ window' = "closed"
    /\ UNCHANGED <<session, nClose, closeCalls, saves>>
    /\ UNCHANGED quitFrame

\* mutant of UnloadSaves: the unload listener saves whatever the settings
UnloadSavesAlways(saveIncomplete, save) == TRUE

\* the unload listener saves the incomplete results
UnloadSaves(saveIncomplete, save) == saveIncomplete /\ save

\* the unload listener registered by start()
unload ==
    LET open == session = "OPEN"
        cancel == open /\ config.intervalId > 0
        save == open /\ UnloadSaves(config.saveIncompleteResults, saveResults)
        stamp == IF save THEN ClearedByUnload(config.lastUploadTimestamp)
                 ELSE config.lastUploadTimestamp
    IN  /\ ~unloaded
        /\ listeners.unload
        /\ unloaded' = TRUE
        /\ config' = [config EXCEPT
                          !.intervalId = IF cancel THEN -1 ELSE @,
                          !.lastUploadTimestamp =
                              IF save /\ ~Throttled(stamp) THEN "recent" ELSE stamp]
        /\ saves' = IF save THEN saves \cup Saved("unload", stamp) ELSE saves
        /\ closeSession(open)
        /\ unloadLog' = (IF cancel THEN <<"clearInterval">> ELSE <<>>)
                         \o (IF save THEN <<"save({sync: true})">> ELSE <<>>)
                         \o (IF open THEN <<"closeSession(false, true)">> ELSE <<>>)
        /\ window' = IF window # "undefined" THEN "closed" ELSE window
        /\ UNCHANGED <<schedVars, resources, gatePoll, status, opts, serverMsg, widgetVars, saveResults,
                       experiment, listeners, startPc, quits, windowLog, statusLog,
                       startLog>>

\* a frame of the loop that scheduler.start() starts; what a step throws ends
\* the flow and goes to the handlers of _captureErrors(), which show it in a
\* dialog and write no status
animate ==
    /\ ~unloaded
    /\ scheduler.status = "RUNNING"
    /\ tick

\* the calls of quit() explored: quit() with its defaults, which ends in the
\* dialog, and quit({isCompleted: true, showOK: false}), which ends at once
QuitArgs == { [isCompleted |-> FALSE, showOK |-> TRUE],
              [isCompleted |-> TRUE, showOK |-> FALSE] }

\* a configuration with all that _configure() looks for
ValidResponse(saveIncomplete) ==
    [rejected |-> FALSE,
     keys |-> Keys \ {"psychoJsManager", "experiment.fullPath"},
     URL |-> "https://host.org", projectId |-> "p1", saveIncomplete |-> saveIncomplete]

\* the outcomes of getConfiguration() explored in a run: a valid configuration,
\* one without its gitlab block, a rejection
RunResponses ==
    { ValidResponse(b) : b \in BOOLEAN }
    \cup { [ValidResponse(FALSE) EXCEPT !.keys = @ \ {"gitlab", "gitlab.projectId"},
                                        !.projectId = "p1"],
           Rejected }

InitRun ==
    /\ InitScheduler(<<Step(1, [conts |-> 0, final |-> "NEXT"])>>)
    /\ InitResources
    /\ \E o \in Options : Constructed(o, TRUE)

NextRun ==
    \/ startCall("UNKNOWN")
    \/ \E r \in RunResponses : gotConfiguration(r)
    \/ startConfigured(Names)
    \/ \E ok \in BOOLEAN : sessionOpened(ok, -1, Names)
    \/ dialogOK
    \/ dialogCancel
    \/ openWindowOnce
    \/ \E i \in 1..MaxQuits, a \in QuitArgs : quit(i, a.isCompleted, a.showOK)
    \/ \E i \in 1..MaxQuits, ok \in BOOLEAN : quitSaved(i, ok)
    \/ \E i \in 1..MaxQuits, ok \in BOOLEAN : quitFlushed(i, ok)
    \/ \E i \in 1..MaxQuits, ok \in BOOLEAN : quitClosed(i, ok)
    \/ \E i \in 1..MaxQuits : quitOK(i)
    \/ unload
    \/ animate

\* a run of an experiment for which the server sets no periodic upload: start(),
\* the frames, quit() and the unload of the page
SpecRun == InitRun /\ [][NextRun]_vars

NextSave ==
    \/ startCall("UNKNOWN")
    \/ \E r \in RunResponses : gotConfiguration(r)
    \/ startConfigured(Names)
    \/ \E ok \in BOOLEAN, period \in Periods : sessionOpened(ok, period, Names)
    \/ dialogOK
    \/ dialogCancel
    \/ openWindowOnce
    \/ \E i \in 1..MaxScriptQuits, a \in QuitArgs : quit(i, a.isCompleted, a.showOK)
    \/ \E i \in 1..MaxQuits, ok \in BOOLEAN : quitSaved(i, ok)
    \/ \E i \in 1..MaxQuits, ok \in BOOLEAN : quitFlushed(i, ok)
    \/ \E i \in 1..MaxQuits, ok \in BOOLEAN : quitClosed(i, ok)
    \/ \E i \in 1..MaxQuits : quitOK(i)
    \/ unload
    \/ upload
    \/ animate

\* a run of an experiment with the periodic upload of its results
SpecSave == InitRun /\ [][NextSave]_vars

----------------------------------------------------------------------------
(* Properties of the orchestrator *)

\* the status has changed as the log says
StatusLogged ==
    status # Status.NOT_CONFIGURED => \E e \in statusLog : e[2] = status

TerminalStatus == {Status.FINISHED}

\* the changes of status the state machine of the design allows
AllowedChanges ==
    { <<Status.NOT_CONFIGURED, Status.CONFIGURING>>,
      <<Status.CONFIGURING, Status.CONFIGURED>>,
      <<Status.CONFIGURED, Status.STARTED>>,
      <<Status.STARTED, Status.PAUSED>>,
      <<Status.PAUSED, Status.STARTED>>,
      <<Status.STARTED, Status.FINISHED>>,
      <<Status.PAUSED, Status.FINISHED>> }
    \cup { <<st, Status.ERROR>> :
              st \in {Status.NOT_CONFIGURED, Status.CONFIGURING, Status.CONFIGURED,
                      Status.STARTED, Status.PAUSED} }

\* C9: the status changes only along NOT_CONFIGURED -> CONFIGURING ->
\* CONFIGURED -> STARTED -> {PAUSED <-> STARTED} -> STOPPED/FINISHED, and to
\* ERROR only from a status that is not terminal; a terminal status is never left.
C9_StatusChain == statusLog \subseteq AllowedChanges

\* C9, its last part alone: a terminal status is never left.
C9_TerminalKept == \A e \in statusLog : e[1] \notin TerminalStatus

\* C10: if _configure() or openSession() fails in start(), start() rejects with
\* the status ERROR, scheduler.start() is never called, no task of the flow is
\* ever invoked and the status is never STARTED.
C10_FailedStartNeverStarts ==
    startLog.failedAt # "none" =>
        /\ startPc = "failed"
        /\ startLog.status = Status.ERROR
        /\ startLog.starts = 0
        /\ scheduler.status # "RUNNING"
        /\ execLog = <<>>
        /\ status # Status.STARTED
        /\ \A e \in statusLog : e[2] # Status.STARTED

\* openSession() has failed and quit() was called afterwards and has ended
C10_Witness ==
    /\ startLog.failedAt = "openSession"
    /\ startLog.status = Status.ERROR
    /\ quits[1].pc = "done"
    /\ StepIds(built) # {}

----------------------------------------------------------------------------
(* Configuration: PsychoJS._configure() *)

NextConfig ==
    \/ \E expName \in {"UNKNOWN", "exp"} : startCall(expName)
    \/ \E r \in Responses \cup {Rejected} : gotConfiguration(r)
    \/ startConfigured(Names)
    \/ \E ok \in BOOLEAN, period \in Periods : sessionOpened(ok, period, Names)
    \/ dialogOK

\* start() alone, over the configurations the server may send
SpecConfig == InitRun /\ [][NextConfig]_vars

\* the blocks and fields _configure() requires
Required == {"experiment", "experiment.name", "experiment.fullpath", "pavlovia",
             "pavlovia.URL", "gitlab", "gitlab.projectId"}

\* the error that names a required block or field
MessageOf(k) ==
    IF k = "experiment" THEN "missing experiment block in configuration"
    ELSE IF k = "experiment.name" THEN "missing name in experiment block in configuration"
    ELSE IF k = "experiment.fullpath"
    THEN "missing fullpath in experiment block in configuration"
    ELSE IF k = "pavlovia" THEN "missing pavlovia block in configuration"
    ELSE IF k = "pavlovia.URL" THEN "missing URL in pavlovia block in configuration"
    ELSE IF k = "gitlab" THEN "missing gitlab block in configuration"
    ELSE "missing projectId in gitlab block in configuration"

\* getConfiguration() has resolved with a configuration
HasFetched ==
    /\ opts.isHost
    /\ startPc \notin {"idle", "configuring"}
    /\ ~startLog.response.rejected

\* configuration has failed naming something that keys lacks, without the status
\* CONFIGURED and without the environment SERVER
FailedNaming(keys) ==
    /\ startLog.failedAt = "configure"
    /\ \E k \in Required \ keys : startLog.error = MessageOf(k)
    /\ \A e \in statusLog : e[2] # Status.CONFIGURED
    /\ config.environment # "SERVER"

\* C11, as stated: on an approved host, when the fetched configuration lacks a
\* required block or field, configuration fails with an error naming what is
\* missing, the status never becomes CONFIGURED and the environment is never SERVER.
C11_MissingFieldFails ==
    (HasFetched /\ Required \ startLog.response.keys # {})
        => FailedNaming(startLog.response.keys)

\* C11, amended: the same for a configuration that lacks a required block or
\* field once a legacy psychoJsManager block has been replaced by a pavlovia
\* block with the URL https://pavlovia.org.
C11_MissingFieldFailsLegacy ==
    (HasFetched /\ Required \ Legacy(startLog.response.keys) # {})
        => FailedNaming(Legacy(startLog.response.keys))

\* a configuration with a legacy block and neither name nor fullpath was
\* fetched: the error names the name
C11_Witness ==
    /\ HasFetched
    /\ "psychoJsManager" \in startLog.response.keys
    /\ "experiment" \in startLog.response.keys
    /\ "experiment.name" \notin startLog.response.keys
    /\ "experiment.fullpath" \notin startLog.response.keys
    /\ startLog.error = "missing name in experiment block in configuration"
    /\ status = Status.ERROR

\* the configuration was accepted and stored with the values of r
AcceptedAs(r) ==
    /\ startLog.failedAt # "configure"
    /\ <<Status.CONFIGURING, Status.CONFIGURED>> \in statusLog
    /\ config.environment = "SERVER"
    /\ config.URL = r.URL
    /\ config.projectId = r.projectId

\* C12, as stated: a configuration holding experiment.name, experiment.fullPath,
\* the URL of the service and gitlab.projectId is accepted, the status becomes
\* CONFIGURED, the environment SERVER, and the stored URL and projectId are
\* those of the response.
C12_ValidAccepted ==
    (HasFetched /\ {"experiment.name", "experiment.fullPath", "pavlovia.URL",
                    "gitlab.projectId"} \subseteq startLog.response.keys)
        => AcceptedAs(startLog.response)

\* C12, amended: the same for a configuration holding experiment.name,
\* experiment.fullpath (in lower case), pavlovia.URL and gitlab.projectId, and no
\* legacy psychoJsManager block.
C12_ValidAcceptedLowerCase ==
    (/\ HasFetched
     /\ {"experiment.name", "experiment.fullpath", "pavlovia.URL", "gitlab.projectId"}
            \subseteq startLog.response.keys
     /\ "psychoJsManager" \notin startLog.response.keys)
        => AcceptedAs(startLog.response)

\* a valid configuration with a URL other than the legacy one was fetched, and
\* start() has gone on to open the session
C12_Witness ==
    /\ HasFetched
    /\ startLog.response.keys = Required
    /\ startLog.response.URL # LegacyURL
    /\ startLog.response.projectId = "p2"
    /\ config.URL = startLog.response.URL
    /\ config.projectId = "p2"
    /\ session = "OPEN"

\* C13: off the approved hosts, _configure() fetches nothing and leaves the
\* environment LOCAL, the name given to start(), the save format CSV,
\* saveIncompleteResults true, resultsUpload = {period: -1, intervalId: -1} and
\* the status CONFIGURED.
C13_LocalConfiguration ==
    (~opts.isHost /\ startPc # "idle") =>
        /\ startLog.fetches = 0
        /\ config.environment = "LOCAL"
        /\ config.name = startLog.expName
        /\ config.saveFormat = "CSV"
        /\ config.saveIncompleteResults
        /\ config.period = -1
        /\ config.intervalId = -1
        /\ <<Status.CONFIGURING, Status.CONFIGURED>> \in statusLog

\* start({expName: "exp"}) has configured a local run and gone on
C13_Witness ==
    /\ ~opts.isHost
    /\ startLog.expName = "exp"
    /\ config.name = "exp"
    /\ config.environment = "LOCAL"
    /\ startPc = "done"

----------------------------------------------------------------------------
(* Saving the results: the periodic upload, quit() and the unload listener *)

\* C14: when the URL of the page carries __noOutput, the results are never
\* saved: the upload timer is not armed, no periodic upload is made, quit()
\* neither saves the results nor flushes the logs, the unload listener saves
\* nothing
C14_NoOutputNeverSaves ==
    opts.noOutput =>
        /\ saves = {}
        /\ config.intervalId = -1
        /\ \A i \in 1..MaxQuits : quits[i].pc \notin {"saving", "flushing"}

\* with __noOutput and a period of one minute set by the server, a completed
\* quit() has run to its end
C14_Witness ==
    /\ opts.noOutput
    /\ config.period > 0
    /\ config.saveIncompleteResults
    /\ \E i \in 1..MaxQuits : quits[i].isCompleted /\ quits[i].pc = "done"

\* C15: when the period of the uploads is zero or negative, no timer is armed:
\* resultsUpload.intervalId is -1 in every state, and no periodic upload is made
C15_NoTimerWithoutPeriod ==
    config.period <= 0 => config.intervalId = -1 /\ "periodic" \notin saves

\* a run on the server with a period of 0 whose results are saved, from the
\* open session to the end of quit()
C15_Witness ==
    /\ config.period = 0
    /\ saveResults
    /\ startLog.starts > 0
    /\ "quit" \in saves
    /\ \E i \in 1..MaxQuits : quits[i].isServerEnv /\ quits[i].pc = "done"

----------------------------------------------------------------------------
(* The order of the effects of quit() and of start() *)

\* call i of quit() gets to pc in this step
Enters(i, pc) == quits[i].pc # pc /\ quits'[i].pc = pc

\* the results are to be saved by call i of quit(), as it stands after the step
SaveApplies(i) ==
    (quits'[i].isCompleted \/ config.saveIncompleteResults) /\ saveResults

\* C16: quit() marks the results ended, stops the scheduler and cancels the
\* upload timer before anything else; it requests the save first, the flush
\* once the save has completed, the close of the session once the flush has
\* completed (or at once when nothing is to be saved), and shows the closing
\* dialog once the session is dealt with
C16_QuitOrder ==
    [][\A i \in 1..MaxQuits :
        /\ (quits[i].pc = "idle" /\ quits'[i].pc \notin {"idle", "typeError"}) =>
                /\ experiment'.experimentEnded
                /\ experiment'.isCompleted = quits'[i].isCompleted
                /\ scheduler'.status = "STOPPED"
                /\ config'.intervalId = -1
        /\ Enters(i, "saving") => quits[i].pc = "idle" /\ SaveApplies(i)
        /\ Enters(i, "flushing") => quits[i].pc = "saving"
        /\ Enters(i, "closing") =>
                /\ quits'[i].isServerEnv
                /\ IF SaveApplies(i)
                   THEN quits[i].pc = "flushing" /\ {"quit", "flush"} \subseteq saves
                   ELSE quits[i].pc = "idle"
        /\ Enters(i, "dialog") =>
                IF quits'[i].isServerEnv THEN quits[i].pc = "closing"
                ELSE IF SaveApplies(i) THEN quits[i].pc = "flushing"
                ELSE quits[i].pc = "idle"
    ]_vars

\* a call of quit() on the server, with an armed timer and results to save,
\* has got to its closing dialog
C16_Witness ==
    \E i \in 1..MaxQuits :
        /\ quits[i].pc = "dialog"
        /\ quits[i].isServerEnv
        /\ "periodic" \in saves
        /\ {"quit", "flush"} \subseteq saves
        /\ session = "CLOSED"
        /\ scheduler.status = "STOPPED"
        /\ config.intervalId = -1

\* C17: the status is terminal only once a call of quit() has run to the end
\* of onTerminate(), and it is not terminal while a call of quit() waits for
\* its save, its flush or the close of the session
C17_TerminalLast ==
    status \in TerminalStatus =>
        /\ \E i \in 1..MaxQuits : quits[i].pc = "done"
        /\ \A i \in 1..MaxQuits : quits[i].pc \notin {"saving", "flushing", "closing"}

\* _configure() has run to its end
WasConfigured(log) == <<Status.CONFIGURING, Status.CONFIGURED>> \in log

\* C18: start() builds the experiment handler once the configuration is
\* complete, opens the session once the handler is built, registers the
\* listeners and arms the timer once the session is open, prepares the
\* resources after that and before the scheduler is started; the scheduler
\* is started only with the resources prepared and, on the server, the session
\* opened
C18_StartOrder ==
    [][/\ (~experiment.defined /\ experiment'.defined) =>
              WasConfigured(statusLog') /\ config'.environment \in {"LOCAL", "SERVER"}
       /\ startLog'.opens > startLog.opens =>
              /\ WasConfigured(statusLog')
              /\ experiment'.defined
              /\ config'.environment = "SERVER"
              /\ ~listeners'.unload /\ config'.intervalId = -1
              /\ (\A n \in Names : resources'[n] = "NONE") /\ startLog'.starts = 0
       /\ (~listeners.unload /\ listeners'.unload) =>
              startLog.opens = 1 /\ session' = "OPEN" /\ listeners'.beforeunload
       /\ (config.intervalId <= 0 /\ config'.intervalId > 0) =>
              startLog.opens = 1 /\ session' = "OPEN" /\ listeners'.unload
       /\ resources' # resources =>
              /\ experiment'.defined
              /\ startLog.starts = 0
              /\ config'.environment = "SERVER" => session' = "OPEN" /\ listeners'.unload
       /\ startLog'.starts > startLog.starts =>
              /\ \A n \in Names : resources'[n] # "NONE"
              /\ config'.environment = "SERVER" => startLog.opens = 1 /\ listeners'.unload
    ]_vars

\* start() has run to its end on the server: the session is open, the timer
\* armed, the resources registered and the scheduler started
C18_Witness ==
    /\ startPc = "done"
    /\ config.environment = "SERVER"
    /\ session = "OPEN"
    /\ listeners.unload
    /\ config.intervalId > 0
    /\ \A n \in Names : resources[n] # "NONE"
    /\ startLog.starts = 1

----------------------------------------------------------------------------
(* The remote session *)

\* C19: in a local run openSession() and closeSession() are never called, no
\* listener is registered on the page and no upload timer is armed; in a run
\* on the server the one call of start() has called openSession() once
C19_SessionOnServerOnly ==
    /\ config.environment = "LOCAL" =>
            /\ startLog.opens = 0
            /\ session = "UNCONFIGURED" /\ nClose = 0 /\ closeCalls = 0
            /\ \A i \in 1..MaxQuits : ~quits[i].isServerEnv /\ quits[i].pc # "closing"
            /\ ~listeners.unload /\ ~listeners.beforeunload
            /\ config.intervalId = -1 /\ "periodic" \notin saves
    /\ config.environment = "SERVER" => startLog.opens = 1

\* a local run from start() to the end of a completed quit()
C19_Witness ==
    /\ config.environment = "LOCAL"
    /\ startLog.starts = 1
    /\ saves = {"quit", "flush"}
    /\ \E i \in 1..MaxQuits : quits[i].isCompleted /\ quits[i].pc = "done"

\* the close request sent by call i of quit() has failed
CloseFailed(i) == quits[i].closer /\ session = "ERROR"

\* C20: a call of quit() whose close request has failed goes on to its closing
\* dialog and to FINISHED: it does not reject and does not leave ERROR
C20_CloseFailureSwallowed ==
    \A i \in 1..MaxQuits :
        CloseFailed(i) => quits[i].pc \in {"dialog", "done"} /\ status # Status.ERROR

----------------------------------------------------------------------------
(* Failures *)

\* C21: a call of quit() on the server that has rejected, its save or its
\* flush having failed, does not leave the session open
C21_SessionClosedAfterFailedSave ==
    \A i \in 1..MaxQuits :
        quits[i].pc = "threw" /\ quits[i].isServerEnv => session # "OPEN"

\* a flow whose first step throws
InitThrow ==
    /\ InitScheduler(<<Step(1, [conts |-> 0, final |-> "THROW"]),
                       Step(2, [conts |-> 0, final |-> "NEXT"])>>)
    /\ InitResources
    /\ \E o \in Options : Constructed(o, TRUE)

NextThrow ==
    \/ startCall("UNKNOWN")
    \/ \E r \in RunResponses : gotConfiguration(r)
    \/ startConfigured(Names)
    \/ \E ok \in BOOLEAN : sessionOpened(ok, -1, Names)
    \/ dialogOK
    \/ openWindowOnce
    \/ unload
    \/ animate

\* start() and the frames of a flow whose first step throws
SpecThrow == InitThrow /\ [][NextThrow]_vars

\* C22: once a step has thrown no later step is executed, the scheduler is
\* stopped and the status is ERROR
C22_ThrowStopsWithError ==
    \A k \in 1..Len(execLog) :
        execLog[k].sig = "THROW" =>
            /\ Len(execLog) = k
            /\ scheduler.status = "STOPPED"
            /\ status = Status.ERROR

\* the part of C22 that holds: once a step has thrown no later step is
\* executed and the scheduler is stopped
C22_ThrowStops ==
    \A k \in 1..Len(execLog) :
        execLog[k].sig = "THROW" => Len(execLog) = k /\ scheduler.status = "STOPPED"

\* the origin of the error call i of quit() has ended with: that of the object
\* thrown by its catch clause, or the TypeError thrown as it is
QuitError(i) ==
    CASE quits[i].pc = "threw" -> "PsychoJS.quit"
      [] quits[i].pc = "typeError" -> "TypeError"
      [] OTHER -> "none"

\* the origin of the error start() has rejected with
StartError == IF startPc = "failed" THEN "PsychoJS.start" ELSE "none"

\* C23: the error a call of start() or quit() ends with is an object
\* {origin, context, error} that names the operation, also when quit() is
\* called before start() has built the experiment handler
C23_ErrorsAreTriples ==
    /\ StartError \in {"none", "PsychoJS.start"}
    /\ startPc = "failed" => startLog.error # "none"
    /\ \A i \in 1..MaxQuits : QuitError(i) \in {"none", "PsychoJS.quit"}

----------------------------------------------------------------------------
(* The unload of the page *)

\* C24: with the session OPEN the unload listener cancels the upload timer if
\* one is armed, then saves the results synchronously if saveIncompleteResults
\* and the saving of results are both on, then sends the close request
\* closeSession(false, true), in that order; with the session not OPEN it
\* neither saves nor closes
C24_UnloadOrder ==
    [][(~unloaded /\ unloaded') =>
         IF session = "OPEN"
         THEN /\ unloadLog' =
                     (IF config.intervalId > 0 THEN <<"clearInterval">> ELSE <<>>)
                     \o (IF config.saveIncompleteResults /\ saveResults
                         THEN <<"save({sync: true})">> ELSE <<>>)
                     \o <<"closeSession(false, true)">>
              /\ config'.intervalId = -1
              /\ saves' = IF config.saveIncompleteResults /\ saveResults
                          THEN saves \cup {"unload"} ELSE saves
              /\ nClose' = nClose + 1
              /\ session' = "CLOSING"
         ELSE /\ unloadLog' = <<>>
              /\ saves' = saves
              /\ nClose' = nClose /\ closeCalls' = closeCalls
              /\ session' = session
    ]_vars

\* the page was unloaded with the session open and the timer armed, and the
\* results were saved
C24_Witness ==
    /\ unloaded
    /\ unloadLog = <<"clearInterval", "save({sync: true})", "closeSession(false, true)">>
    /\ "unload" \in saves
    /\ session = "CLOSING"

----------------------------------------------------------------------------
(* The window *)

NextWindow ==
    \/ startCall("UNKNOWN")
    \/ \E r \in RunResponses : gotConfiguration(r)
    \/ startConfigured(Names)
    \/ \E ok \in BOOLEAN : sessionOpened(ok, -1, Names)
    \/ openWindow
    \/ \E i \in 1..MaxScriptQuits, a \in QuitArgs : quit(i, a.isCompleted, a.showOK)
    \/ \E i \in 1..MaxQuits, ok \in BOOLEAN : quitSaved(i, ok)
    \/ \E i \in 1..MaxQuits, ok \in BOOLEAN : quitFlushed(i, ok)
    \/ \E i \in 1..MaxQuits, ok \in BOOLEAN : quitClosed(i, ok)
    \/ \E i \in 1..MaxQuits : quitOK(i)

\* a run in which openWindow() is called any number of times, at any time
SpecWindow == InitRun /\ [][NextWindow]_vars

\* C25: no second Window is ever built: a call of openWindow() made once a
\* window has been opened, closed by quit() or not, throws an object of origin
\* PsychoJS.openWindow and leaves the window as it is
C25_OneWindow ==
    [][/\ windowLog'.made <= 1
       /\ windowLog'.made > windowLog.made => window = "undefined" /\ window' = "open"
       /\ (windowLog' # windowLog /\ window # "undefined") =>
              /\ windowLog'.error = "PsychoJS.openWindow"
              /\ windowLog'.made = windowLog.made
              /\ window' = window
    ]_vars

\* openWindow() has thrown after quit() has closed the window
C25_Witness ==
    /\ window = "closed"
    /\ windowLog = [made |-> 1, error |-> "PsychoJS.openWindow"]
    /\ \E i \in 1..MaxQuits : quits[i].pc = "done"

----------------------------------------------------------------------------
(* Deferred start *)

\* C26: with autoStartScheduler off nothing that start() sets up starts the
\* scheduler or sets the status to STARTED
C26_DeferredNeverStarts ==
    ~opts.autoStartScheduler =>
        /\ startLog.starts = 0
        /\ \A e \in statusLog : e[2] # Status.STARTED

----------------------------------------------------------------------------
(* A local run and its resources *)

\* a frame of the animation loop; the frames on which a gate keeps waiting
\* are capped
animateLocal ==
    /\ TickQ(scheduler).sig = "CONTINUE" => Continues < MaxPolls
    /\ animate

NextLocal ==
    \/ startCall("UNKNOWN")
    \/ \E names \in SUBSET Names : startConfigured(names)
    \/ \E names \in SUBSET Names : prepareResources(names)
    \/ \E n \in Names : downloadStart(n)
    \/ \E n \in Names : downloadDone(n)
    \/ \E n \in Names : downloadError(n)
    \/ schedule(waitForResources(nextId, {}))
    \/ animateLocal

\* an experiment run locally: the script builds a flow of gates, starts the
\* experiment, and may declare further resources while the flow runs
SpecLocal == InitBuild /\ [][NextLocal]_vars

----------------------------------------------------------------------------
(* The save of quit() *)

\* call i of quit() gets past its first statements
Begins(i) == quits[i].pc = "idle" /\ quits'[i].pc \notin {"idle", "typeError"}

\* C28: a call of quit() asks for the save of the results exactly when saving
\* is enabled and the run is completed or incomplete results are kept; the
\* flush of the logs is asked for only by a call whose save has completed, and
\* nothing else in quit() saves or flushes
C28_SaveIff ==
    [][/\ \A i \in 1..MaxQuits :
            /\ Begins(i) =>
                    /\ quits'[i].pc = "saving" <=>
                           (saveResults /\ (quits'[i].isCompleted
                                            \/ config.saveIncompleteResults))
                    /\ quits'[i].pc = "saving" => "quit" \in saves'
                    /\ quits'[i].pc # "saving" => saves' = saves
            /\ Enters(i, "saving") => Begins(i)
            /\ Enters(i, "flushing") =>
                    /\ quits[i].pc = "saving"
                    /\ "quit" \in saves
                    /\ "flush" \in saves'
       /\ (saves' \ saves) \cap {"quit", "flush"} # {} =>
              \E i \in 1..MaxQuits : Enters(i, "saving") \/ Enters(i, "flushing")
    ]_vars

\* with incomplete results not kept, a first call of quit() for an incomplete
\* run went on without saving, and a second one for a completed run saved the
\* results and then flushed the logs
C28_Witness ==
    /\ saveResults
    /\ ~config.saveIncompleteResults
    /\ quits[1].pc \in {"closing", "dialog", "done"}
    /\ ~quits[1].isCompleted
    /\ quits[2].pc \in {"closing", "dialog", "done"}
    /\ quits[2].isCompleted
    /\ {"quit", "flush"} \subseteq saves

----------------------------------------------------------------------------
(* The periodic upload and its timer *)

\* the first periodic save of the run fires on this step
FirstPeriodic == "periodic" \in saves' /\ "periodic" \notin saves

\* C29: once a call of quit() has got past its first statements or the unload
\* handler has found the session open, intervalId is -1; and a periodic save
\* fires only after openSession() succeeded and before any call of quit() and
\* the unload, with saving enabled and a period above zero
C29_PeriodicOnlyWhileRunning ==
    [][/\ \A i \in 1..MaxQuits : Begins(i) => config'.intervalId = -1
       /\ (~unloaded /\ unloaded' /\ session = "OPEN") => config'.intervalId = -1
       /\ FirstPeriodic =>
              /\ startLog.opens > 0
              /\ startPc \in {"dialog", "done"}
              /\ \A i \in 1..MaxQuits : quits[i].pc = "idle"
              /\ ~unloaded
              /\ saveResults
              /\ config.period > 0
    ]_vars

----------------------------------------------------------------------------
(* The save at shutdown and the throttle *)

\* a periodic upload that was issued earlier completes and stamps its time,
\* at whatever moment the network lets it
uploaded ==
    /\ ~unloaded
    /\ "periodic" \in saves
    /\ config' = [config EXCEPT !.lastUploadTimestamp = "recent"]
    /\ UNCHANGED <<schedVars, resources, gatePoll, status, opts, serverMsg, widgetVars, saveResults,
                   experiment, window, session, listeners, startPc, quits, unloaded,
                   unloadLog, windowLog, nClose, closeCalls, statusLog, startLog,
                   saves>>

NextStamp ==
    \/ startCall("UNKNOWN")
    \/ \E r \in RunResponses : gotConfiguration(r)
    \/ startConfigured(Names)
    \/ \E ok \in BOOLEAN : sessionOpened(ok, 1, Names)
    \/ dialogOK
    \/ upload
    \/ uploaded
    \/ \E i \in 1..MaxScriptQuits, a \in QuitArgs : quit(i, a.isCompleted, a.showOK)
    \/ \E i \in 1..MaxQuits, ok \in BOOLEAN : quitSaved(i, ok)
    \/ \E i \in 1..MaxQuits, ok \in BOOLEAN : quitFlushed(i, ok)
    \/ \E i \in 1..MaxQuits, ok \in BOOLEAN : quitClosed(i, ok)
    \/ \E i \in 1..MaxQuits : quitOK(i)
    \/ unload

\* a run whose periodic uploads complete at any moment, before, during and
\* after quit() and the unload
SpecStamp == InitRun /\ [][NextStamp]_vars

\* C30: no save made by quit() or by the unload handler is skipped for
\* following an upload too closely
C30_ShutdownSaveNotThrottled ==
    /\ "quit skipped" \notin saves
    /\ "unload skipped" \notin saves

\* periodic uploads were made, then quit() was called on the started run
\* (it removed the beforeunload listener and cancelled the timer) and saved
\* the results and, while it was waiting, the page was unloaded and the
\* handler saved them again: each of the two saves followed an upload at once
C30_Witness ==
    /\ {"periodic", "quit", "unload"} \subseteq saves
    /\ config.lastUploadTimestamp = "recent"
    /\ config.intervalId = -1
    /\ quits[1].pc = "saving"
    /\ ~listeners.beforeunload
    /\ unloaded

----------------------------------------------------------------------------
(* The redirection at the end of quit() *)

Urls == [completionUrl : {"undefined", "/completed"},
         cancellationUrl : {"undefined", "/cancelled"}]

\* setRedirectUrls(completionUrl, cancellationUrl)
setRedirectUrls(completionUrl, cancellationUrl) ==
    /\ ~unloaded
    /\ opts' = [opts EXCEPT !.completionUrl = completionUrl,
                            !.cancellationUrl = cancellationUrl]
    /\ UNCHANGED <<schedVars, resources, gatePoll, status, serverMsg, widgetVars, saveResults,
                   config, experiment, window, session, listeners, startPc, quits,
                   unloaded, unloadLog, windowLog, nClose, closeCalls, statusLog,
                   startLog, saves>>

\* quit() over its two options
RedirectArgs == [isCompleted : BOOLEAN, showOK : BOOLEAN]

NextRedirect ==
    \/ startCall("UNKNOWN")
    \/ \E r \in RunResponses : gotConfiguration(r)
    \/ startConfigured(Names)
    \/ \E ok \in BOOLEAN : sessionOpened(ok, -1, Names)
    \/ openWindowOnce
    \/ \E u \in Urls : setRedirectUrls(u.completionUrl, u.cancellationUrl)
    \/ \E i \in 1..MaxScriptQuits, a \in RedirectArgs : quit(i, a.isCompleted, a.showOK)
    \/ \E i \in 1..MaxQuits, ok \in BOOLEAN : quitSaved(i, ok)
    \/ \E i \in 1..MaxQuits, ok \in BOOLEAN : quitFlushed(i, ok)
    \/ \E i \in 1..MaxQuits, ok \in BOOLEAN : quitClosed(i, ok)
    \/ \E i \in 1..MaxQuits : quitOK(i)

\* a flow of one step, a scheduler that start() starts, no WebGL dialog
InitRedirect ==
    /\ InitScheduler(<<Step(1, [conts |-> 0, final |-> "NEXT"])>>)
    /\ InitResources
    /\ \E o \in { x \in Options : x.autoStartScheduler /\ ~x.checkWebGLSupport } :
           Constructed(o, TRUE)

\* a run whose script sets the redirection URLs at any moment
SpecRedirect == InitRedirect /\ [][NextRedirect]_vars

\* C31: the call of quit() that ends sends the participant to the completion
\* URL exactly when isCompleted and that URL is set, to the cancellation URL
\* exactly when not isCompleted and that URL is set, and nowhere otherwise; it
\* does so with the status FINISHED, after the OK of the dialog when showOK,
\* and no other step of quit() redirects
C31_RedirectAtEnd ==
    [][\A i \in 1..MaxQuits :
          /\ Enters(i, "done") =>
                /\ status' = Status.FINISHED
                /\ quits'[i].showOK => quits[i].pc = "dialog"
                /\ quits'[i].location =
                      (IF quits'[i].isCompleted /\ opts.completionUrl # "undefined"
                       THEN opts.completionUrl
                       ELSE IF ~quits'[i].isCompleted /\ opts.cancellationUrl # "undefined"
                       THEN opts.cancellationUrl
                       ELSE "none")
          /\ quits'[i].location # quits[i].location => Enters(i, "done")
    ]_vars

\* with both URLs set, a call of quit() for an incomplete run ended after the
\* OK of its dialog and sent the participant to the cancellation URL
C31_Witness ==
    /\ opts.completionUrl = "/completed"
    /\ opts.cancellationUrl = "/cancelled"
    /\ quits[1].pc = "done"
    /\ quits[1].showOK
    /\ ~quits[1].isCompleted
    /\ quits[1].location = "/cancelled"
    /\ status = Status.FINISHED

----------------------------------------------------------------------------
(* The beforeunload listener *)

\* C32: the beforeunload listener is registered whenever the session is OPEN,
\* only after openSession() succeeded in a run on the server, never in a
\* local run, and a call of quit() on the server removes it
C32_PromptWhileOpen ==
    [][/\ session' = "OPEN" => listeners'.beforeunload
       /\ listeners'.beforeunload =>
              /\ config'.environment = "SERVER"
              /\ startLog'.opens > 0
              /\ startPc' \in {"dialog", "done"}
       /\ \A i \in 1..MaxQuits :
              (Begins(i) /\ quits'[i].isServerEnv) => ~listeners'.beforeunload
    ]_vars

----------------------------------------------------------------------------
(* The server message board *)

\* the query parameters a page may carry
UrlParameters ==
    { <<PilotTokenKey, "t1">>, <<NoOutputKey, "">>, <<<<"participant">>, "7">>,
      <<<<"_", "x">>, "1">>, <<<<"session", "__", "id">>, "2">> }

\* the instances made on a page of pavlovia.org or of the local machine, with
\* any of those parameters
BoardOptions ==
    { OnPage([autoStartScheduler |-> TRUE, checkWebGLSupport |-> FALSE,
              isHost |-> href = PavloviaHref,
              noOutput |-> \E e \in params : e[1] = NoOutputKey],
             href, {}, params) :
      href \in {PavloviaHref, LocalHref}, params \in SUBSET UrlParameters }

InitBoard ==
    /\ InitScheduler(<<Step(1, [conts |-> 0, final |-> "NEXT"])>>)
    /\ InitResources
    /\ \E o \in BoardOptions : Constructed(o, TRUE)

NextBoard ==
    \/ startCall("UNKNOWN")
    \/ \E r \in RunResponses : gotConfiguration(r)
    \/ startConfigured(Names)
    \/ \E ok \in BOOLEAN : sessionOpened(ok, -1, Names)
    \/ openWindowOnce
    \/ \E i \in 1..MaxScriptQuits, a \in QuitArgs : quit(i, a.isCompleted, a.showOK)
    \/ \E i \in 1..MaxQuits, ok \in BOOLEAN : quitSaved(i, ok)
    \/ \E i \in 1..MaxQuits, ok \in BOOLEAN : quitFlushed(i, ok)
    \/ \E i \in 1..MaxQuits, ok \in BOOLEAN : quitClosed(i, ok)
    \/ \E i \in 1..MaxQuits : quitOK(i)
    \/ unload
    \/ animate

\* runs on pages with any query parameters
SpecBoard == InitBoard /\ [][NextBoard]_vars

----------------------------------------------------------------------------
(* The approved hosts *)

LabHost == <<"https://", "lab.org/">>

\* a page whose URL names pavlovia.org in its query only
QuotingHref == <<"https://", "evil.org/", "?from=", "https://", "pavlovia.org/", "run/">>

\* the pages explored: two of pavlovia.org, one of a laboratory, one of the
\* local machine, one that quotes pavlovia.org and one that stops short of
\* the approved path
Hrefs ==
    { PavloviaHref, LocalHref, QuotingHref,
      <<"https://", "run.", "pavlovia.org/", "exp/">>,
      <<"https://", "lab.org/", "exp/">>,
      <<"https://", "pavlovia.org/">> }

\* href begins with one of the approved hosts
BeginsWithHost(hosts, href) ==
    \E url \in PavloviaHosts \cup hosts :
        Len(url) <= Len(href) /\ \A k \in 1..Len(url) : href[k] = url[k]

HostOptions ==
    { OnPage([autoStartScheduler |-> TRUE, checkWebGLSupport |-> FALSE,
              isHost |-> BeginsWithHost(hosts, href), noOutput |-> FALSE],
             href, hosts, {}) :
      href \in Hrefs, hosts \in {{}, {LabHost}} }

InitHost ==
    /\ InitScheduler(<<Step(1, [conts |-> 0, final |-> "NEXT"])>>)
    /\ InitResources
    /\ \E o \in HostOptions : Constructed(o, TRUE)

\* runs on pages of any of those URLs
SpecHost == InitHost /\ [][NextBoard]_vars

\* C34: start() fetches the remote configuration exactly when the URL of the
\* page begins with an approved host, built in or given to the constructor,
\* and makes the local configuration otherwise; only such a run is ever taken
\* for a run on the server
C34_ServerIffHostPrefix ==
    [][/\ (startPc = "idle" /\ startPc' # "idle") =>
              IF BeginsWithHost(opts.hosts, opts.href)
              THEN /\ startPc' = "configuring"
                   /\ startLog'.fetches = 1
                   /\ config'.environment # "LOCAL"
              ELSE /\ startPc' = "configured"
                   /\ startLog'.fetches = 0
                   /\ config'.environment = "LOCAL"
       /\ config'.environment = "SERVER" => BeginsWithHost(opts.hosts, opts.href)
       /\ startLog'.fetches > 0 => BeginsWithHost(opts.hosts, opts.href)
    ]_vars

\* on the page that quotes pavlovia.org in its query the experiment has
\* started with the local configuration and nothing was fetched
C34_Witness ==
    /\ opts.href = QuotingHref
    /\ opts.hosts = {LabHost}
    /\ startPc = "done"
    /\ status = Status.STARTED
    /\ config.environment = "LOCAL"
    /\ startLog.fetches = 0

----------------------------------------------------------------------------
(* The edge cases of the queue *)

\* this step is a call of tick()
Ticked == execLog' # execLog \/ lastTick' # lastTick

\* C35: tick() on an empty queue that was never started runs nothing, leaves
\* the queue as it was and returns STOPPED; add() on a STOPPED queue makes it
\* RUNNING with the task added, and the next tick() runs that task
C35_EmptyTickAndResume ==
    [][/\ (Ticked /\ scheduler.tasks = <<>> /\ scheduler.status = "NOT_STARTED") =>
              /\ scheduler' = scheduler
              /\ execLog' = execLog /\ predLog' = predLog
              /\ discarded' = discarded
              /\ lastTick' = [NoTick EXCEPT !.sig = "STOPPED"]
       /\ (scheduler.status = "STOPPED" /\ built' # built) =>
              /\ scheduler'.status = "RUNNING"
              /\ scheduler'.tasks = <<built'.tasks[Len(built'.tasks)]>>
       /\ (Ticked /\ scheduler.status = "RUNNING" /\ StepIds(scheduler) # {}) =>
              /\ lastTick'.ran # <<>>
              /\ lastTick'.ran[1].id \in StepIds(scheduler)
              /\ execLog' = execLog \o lastTick'.ran
    ]_vars

\* step 1 was discarded by stop() before anything ran; step 3, added to the
\* stopped queue afterwards, has run
C35_Witness ==
    /\ [id |-> 1, at |-> 0, by |-> "stop"] \in discarded
    /\ \A e \in discarded : e.id # 3
    /\ execLog = <<[id |-> 3, sig |-> "NEXT"]>>
    /\ scheduler.tasks = <<>>

----------------------------------------------------------------------------
(* The dialog about hardware acceleration *)

\* start() showed the dialog about hardware acceleration
WarnedOfWebGL == opts.checkWebGLSupport /\ ~opts.webGL

\* C36: while the dialog about hardware acceleration is shown the scheduler
\* has not been started, the status is not STARTED and no task has run; OK
\* starts the scheduler and sets STARTED; Cancel calls quit(), after which the
\* scheduler is never started and no task ever runs
C36_DialogDecides ==
    [][/\ startPc' = "dialog" =>
              /\ WarnedOfWebGL
              /\ startLog'.starts = 0
              /\ status' # Status.STARTED
              /\ scheduler'.status # "RUNNING"
              /\ execLog' = <<>>
       /\ (startPc = "dialog" /\ startPc' = "done") =>
              IF \E i \in 1..MaxQuits : Begins(i)
              THEN /\ startLog'.starts = 0
                   /\ scheduler'.status = "STOPPED"
                   /\ status' = Status.STOPPED
              ELSE /\ startLog'.starts = 1
                   /\ scheduler'.status = "RUNNING"
                   /\ status' = Status.STARTED
       /\ (WarnedOfWebGL /\ startPc' = "done" /\ startLog'.starts = 0) =>
              /\ scheduler'.status = "STOPPED"
              /\ execLog' = <<>>
              /\ \E i \in 1..MaxQuits : quits'[i].pc # "idle"
    ]_vars

\* the participant pressed Cancel: the quit() that followed has closed the
\* session and shows its dialog, the scheduler was never started and no task
\* has run
C36_Witness ==
    /\ WarnedOfWebGL
    /\ startPc = "done"
    /\ startLog.starts = 0
    /\ quits[1].pc = "dialog" /\ quits[1].showOK /\ ~quits[1].isCompleted
    /\ quits[2].pc = "idle"
    /\ session = "CLOSED"
    /\ scheduler.status = "STOPPED"
    /\ execLog = <<>>

----------------------------------------------------------------------------
(* The stimuli have their own state: the orchestrator stays as constructed *)

\* everything but the stimuli
coreVars == <<schedVars, resources, gatePoll, status, opts, serverMsg, saveResults, config,
              experiment, window, session, listeners, startPc, quits, unloaded, unloadLog,
              windowLog, nClose, closeCalls, statusLog, startLog, saves>>

\* an experiment that has been constructed and not started
InitCore ==
    /\ InitScheduler(<<>>)
    /\ InitResources
    /\ Orchestrator(DefaultOptions, TRUE)

----------------------------------------------------------------------------
(* AnimatedGIF: the sprite and the shared ticker                          *)
(*                                                                         *)
(* Time is counted in whole units: the delays of the frames are whole      *)
(* numbers and deltaTime is counted in multiples of TARGET_FPMS, so that   *)
(* elapsed = animationSpeed * deltaTime / TARGET_FPMS is a whole number.   *)

\* the largest deltaTime passed to update()
MaxElapsed == 3

\* the delays of the frames of the images played: all positive
FrameDelays == { <<2>>, <<1, 2>>, <<2, 1, 1>> }

AnimationSpeeds == {1, 2}

\* the options of the constructor that bear on playback
GifOptions == [loop : BOOLEAN, autoPlay : BOOLEAN, autoUpdate : BOOLEAN,
               animationSpeed : AnimationSpeeds]

\* the variable `time` of the constructor after n frames
RECURSIVE TimeAfter(_, _)
TimeAfter(delays, n) == IF n = 0 THEN 0 ELSE TimeAfter(delays, n - 1) + delays[n]

\* _frameTimings; frame i of the source is element i + 1
FrameTimings(delays) ==
    [i \in 1..Len(delays) |-> [start |-> TimeAfter(delays, i - 1),
                               end |-> TimeAfter(delays, i)]]

\* _frameTimings.findIndex(ft => ft.start <= localTime && ft.end > localTime)
FindIndex(frameTimings, localTime) ==
    LET found == { i \in 1..Len(frameTimings) :
                       frameTimings[i].start <= localTime /\ frameTimings[i].end > localTime }
    IN  IF found = {} THEN -1
        ELSE (CHOOSE i \in found : \A j \in found : i <= j) - 1

\* what a call did: its argument if it is update(), the listeners it added to
\* the ticker, the calls of onComplete it made, the error it threw
Call(op) == [op |-> op, deltaTime |-> 0, adds |-> 0, completes |-> 0, threw |-> "none"]

\* PIXI.Ticker.shared.add(this.update, this): one more listener
TickerAdd(g) == [g EXCEPT !.ticker = @ + 1, !.call.adds = @ + 1]

\* PIXI.Ticker.shared.remove(this.update, this): every listener of the sprite
TickerRemove(g) == [g EXCEPT !.ticker = 0]

\* stop() that leaves the sprite on the ticker
StoppedOnTicker(g) ==
    IF ~g.playing THEN g
    ELSE [g EXCEPT !.playing = FALSE]

\* stop()
Stopped(g) ==
    IF ~g.playing THEN g
    ELSE LET s == [g EXCEPT !.playing = FALSE]
         IN  IF s.autoUpdate /\ s.connected
             THEN [TickerRemove(s) EXCEPT !.connected = FALSE]
             ELSE s

\* play(); reading the number of frames of a destroyed sprite is a TypeError
Played(g) ==
    IF g.playing THEN g
    ELSE LET p == [g EXCEPT !.playing = TRUE]
             c == IF p.autoUpdate /\ ~p.connected
                  THEN [TickerAdd(p) EXCEPT !.connected = TRUE]
                  ELSE p
         IN  IF c.loop THEN c
             ELSE IF c.destroyed THEN [c EXCEPT !.call.threw = "TypeError"]
             ELSE IF c.currentFrame = c.totalFrames - 1
                  THEN [c EXCEPT !.currentTime = 0]
                  ELSE c

\* updateFrameIndex(value)
updateFrameIndex(g, value) ==
    IF g.destroyed THEN [g EXCEPT !.call.threw = "TypeError"]
    ELSE IF value < 0 \/ value >= g.totalFrames THEN [g EXCEPT !.call.threw = "Error"]
    ELSE [g EXCEPT !.currentFrame = value]

\* update(deltaTime) that leaves a finished animation playing
UpdatedWithoutStop(g, deltaTime) ==
    IF ~g.playing THEN g
    ELSE LET elapsed == g.animationSpeed * deltaTime
             currentTime == g.currentTime + elapsed
             localTime == currentTime % g.duration
             localFrame == FindIndex(g.frameTimings, localTime)
         IN  IF currentTime >= g.duration
             THEN IF g.loop
                  THEN updateFrameIndex([g EXCEPT !.currentTime = localTime], localFrame)
                  ELSE LET f == updateFrameIndex([g EXCEPT !.currentTime = g.duration],
                                                 g.totalFrames - 1)
                       IN  IF f.call.threw # "none" THEN f
                           ELSE [f EXCEPT !.call.completes = @ + 1, !.finished = TRUE]
             ELSE updateFrameIndex([g EXCEPT !.currentTime = localTime], localFrame)

\* update(deltaTime); an error thrown by updateFrameIndex ends the call
Updated(g, deltaTime) ==
    IF ~g.playing THEN g
    ELSE LET elapsed == g.animationSpeed * deltaTime
             currentTime == g.currentTime + elapsed
             localTime == currentTime % g.duration
             localFrame == FindIndex(g.frameTimings, localTime)
         IN  IF currentTime >= g.duration
             THEN IF g.loop
                  THEN updateFrameIndex([g EXCEPT !.currentTime = localTime], localFrame)
                  ELSE LET f == updateFrameIndex([g EXCEPT !.currentTime = g.duration],
                                                 g.totalFrames - 1)
                       IN  IF f.call.threw # "none" THEN f
                           ELSE Stopped([f EXCEPT !.call.completes = @ + 1, !.finished = TRUE])
             ELSE updateFrameIndex([g EXCEPT !.currentTime = localTime], localFrame)

\* the body of the autoUpdate setter, once the value is known to differ
AssignAutoUpdate(g, value) ==
    LET a == [g EXCEPT !.autoUpdate = value]
    IN  IF ~a.autoUpdate /\ a.connected
        THEN [TickerRemove(a) EXCEPT !.connected = FALSE]
        ELSE IF a.autoUpdate /\ ~a.connected /\ a.playing
             THEN [TickerAdd(a) EXCEPT !.connected = TRUE]
             ELSE a

\* set autoUpdate(value)
AutoUpdated(g, value) ==
    IF value # g.autoUpdate THEN AssignAutoUpdate(g, value) ELSE g

\* set currentFrame(value)
FrameSet(g, value) ==
    LET f == updateFrameIndex(g, value)
    IN  IF f.call.threw # "none" THEN f
        ELSE [f EXCEPT !.currentTime = g.frameTimings[value + 1].start]

\* destroy()
Destroyed(g) == [Stopped(g) EXCEPT !.destroyed = TRUE]

\* new AnimatedGIF(frames, options), frames with the given delays: _autoUpdate
\* is undefined when Object.assign sets autoUpdate, so the value always
\* differs; _currentFrame is undefined (here -1) when the first frame is set
NewGif(delays, options) ==
    LET raw == [frameTimings |-> FrameTimings(delays),
                totalFrames |-> Len(delays),
                duration |-> FrameTimings(delays)[Len(delays)].end,
                loop |-> options.loop,
                animationSpeed |-> options.animationSpeed,
                autoPlay |-> options.autoPlay,
                playing |-> FALSE,
                currentTime |-> 0,
                connected |-> FALSE,
                autoUpdate |-> FALSE,
                currentFrame |-> -1,
                destroyed |-> FALSE,
                ticker |-> 0,
                finished |-> FALSE,
                call |-> Call("new")]
        drawn == FrameSet(AssignAutoUpdate(raw, options.autoUpdate), 0)
    IN  IF drawn.autoPlay THEN Played(drawn) ELSE drawn

\* the fields of the sprite, its listeners on the ticker, and whether it has
\* run to its end (history)
Sprite(g) == [g EXCEPT !.call = Call("none")]

play ==
    /\ gif' = Played([gif EXCEPT !.call = Call("play")])
    /\ UNCHANGED <<coreVars, stim, input>>

stop ==
    /\ gif' = Stopped([gif EXCEPT !.call = Call("stop")])
    /\ UNCHANGED <<coreVars, stim, input>>

setAutoUpdate(value) ==
    /\ gif' = AutoUpdated([gif EXCEPT !.call = Call("autoUpdate")], value)
    /\ UNCHANGED <<coreVars, stim, input>>

setCurrentFrame(value) ==
    /\ gif' = FrameSet([gif EXCEPT !.call = Call("currentFrame")], value)
    /\ UNCHANGED <<coreVars, stim, input>>

\* by the ticker while the sprite is connected, by the script at any time
update(deltaTime) ==
    /\ gif' = Updated([gif EXCEPT !.call = [Call("update") EXCEPT !.deltaTime = deltaTime]],
                       deltaTime)
    /\ UNCHANGED <<coreVars, stim, input>>

destroy ==
    /\ gif' = Destroyed([gif EXCEPT !.call = Call("destroy")])
    /\ UNCHANGED <<coreVars, stim, input>>

InitGif ==
    /\ InitCore
    /\ \E delays \in FrameDelays, options \in GifOptions : gif = NewGif(delays, options)
    /\ stim = "none"
    /\ input = "none"

NextGif ==
    \/ play
    \/ stop
    \/ \E value \in BOOLEAN : setAutoUpdate(value)
    \/ \E value \in 0..gif.totalFrames : setCurrentFrame(value)
    \/ \E deltaTime \in 0..MaxElapsed : update(deltaTime)
    \/ destroy

SpecGif == InitGif /\ [][NextGif]_vars

\* C37: whatever play(), stop(), assignments of autoUpdate, update() and
\* destroy() were called, the sprite has a listener on the shared ticker
\* exactly when it is playing and autoUpdate is true, and it never has two;
\* no call adds it twice; play() while playing and stop() while stopped
\* change nothing
C37_OnTickerIffPlayingAuto ==
    [][
       /\ gif.connected <=> (gif.playing /\ gif.autoUpdate)
       /\ gif'.connected <=> (gif'.playing /\ gif'.autoUpdate)
       /\ gif.ticker = IF gif.playing /\ gif.autoUpdate THEN 1 ELSE 0
       /\ gif'.ticker = IF gif'.playing /\ gif'.autoUpdate THEN 1 ELSE 0
       /\ gif'.call.adds <= 1
       /\ (gif'.call.adds = 1) => gif.ticker = 0
       /\ (gif'.call.op = "play" /\ gif.playing) => Sprite(gif') = Sprite(gif)
       /\ (gif'.call.op = "stop" /\ ~gif.playing) => Sprite(gif') = Sprite(gif)
    ]_vars

\* the constructor put the sprite on the ticker, it has run to its end since,
\* which took it off, and play() has put it back
C37_Witness ==
    /\ gif.autoPlay /\ ~gif.loop
    /\ gif.finished
    /\ gif.call.op = "play"
    /\ gif.call.adds = 1
    /\ gif.playing /\ gif.autoUpdate /\ gif.connected
    /\ gif.ticker = 1

\* every frame index and time the sprite can have
InRange(g) ==
    /\ g.currentFrame \in 0..(g.totalFrames - 1)
    /\ g.currentTime \in 0..g.duration

\* C38: for a sprite that has not been destroyed, with update() called with
\* any deltaTime >= 0: the frame index is in [0, totalFrames) and the time in
\* [0, duration]; an animation that does not loop and reaches its duration
\* is left on the last frame, at its duration, not playing, with onComplete
\* called once; play() then restarts it at time 0; update() while not playing
\* changes nothing
C38_UpdateStaysInRange ==
    [][
       /\ ~gif.destroyed => InRange(gif)
       /\ ~gif'.destroyed => InRange(gif')
       /\ gif'.call.completes <= 1
       /\ (/\ gif'.call.op = "update"
           /\ ~gif.destroyed /\ gif.playing /\ ~gif.loop
           /\ gif.currentTime + gif.animationSpeed * gif'.call.deltaTime >= gif.duration)
              => /\ gif'.currentFrame = gif.totalFrames - 1
                 /\ gif'.currentTime = gif.duration
                 /\ gif'.call.completes = 1
                 /\ ~gif'.playing
       /\ (gif'.call.op = "update" /\ gif'.call.completes = 1)
              => /\ ~gif.loop
                 /\ gif.currentTime + gif.animationSpeed * gif'.call.deltaTime >= gif.duration
       /\ (/\ gif'.call.op = "play"
           /\ ~gif.destroyed /\ ~gif.playing /\ ~gif.loop
           /\ gif.currentTime = gif.duration)
              => gif'.playing /\ gif'.currentTime = 0
       /\ (gif'.call.op = "update" /\ ~gif.playing) => Sprite(gif') = Sprite(gif)
    ]_vars

\* an animation of three frames that does not loop ran to its end, and
\* play() has put it back at time 0
C38_Witness ==
    /\ ~gif.loop /\ ~gif.destroyed
    /\ gif.finished
    /\ gif.call.op = "play"
    /\ gif.playing
    /\ gif.totalFrames = 3
    /\ gif.currentFrame = 2
    /\ gif.currentTime = 0

----------------------------------------------------------------------------
(* VisualStim: the drag of a stimulus by a pointer                         *)
(*                                                                         *)
(* One coordinate is kept, in pixels, with the window and the parent of    *)
(* the stimulus at the origin: the position of the pointer is pageX and    *)
(* the position of the stimulus is pos.                                    *)

\* the pointers (mouse, fingers, pen) have ids 1..MaxPointers
MaxPointers == 2
\* the pointers and the stimulus are at positions 0..MaxPos
MaxPos == 2

PointerIds == 1..MaxPointers
Positions == 0..MaxPos

\* _associatedPointerId === undefined
NoPointer == 0

\* the pointer events the window passes on: onStim says that the pointer is
\* over the PIXI representation of the stimulus (e.pixi === this._pixi)
PointerEvents == [pointerId : PointerIds, pageX : Positions, onStim : BOOLEAN]

NoEvent == [type |-> "none", pointerId |-> NoPointer]

\* new VisualStim({...}), with the default draggable = false; drag (history)
\* is the pointer that owns the drag by the rule of the design: the pointer
\* of the last pointerdown on the stimulus while it was draggable, until its
\* pointerup or until the stimulus stops being draggable; event (history) is
\* the last event of the window
NewStim(pos) ==
    [draggable |-> FALSE,
     handlers |-> FALSE,
     associatedPointerId |-> NoPointer,
     initialPointerOffset |-> 0,
     pos |-> pos,
     emitted |-> "none",
     drag |-> NoPointer,
     event |-> NoEvent]

\* get isDragging
IsDragging(s) == s.associatedPointerId # NoPointer

\* setDraggable(draggable): _setAttribute says whether the value has changed;
\* the handlers are put on the window or taken off it
DraggableSet(s, draggable) ==
    LET hasChanged == draggable # s.draggable
        d == [s EXCEPT !.draggable = draggable]
    IN  IF hasChanged THEN [d EXCEPT !.handlers = draggable] ELSE d

\* _handlePointerDown(e)
handlePointerDown(s, e) ==
    IF ~e.onStim THEN s
    ELSE [s EXCEPT !.associatedPointerId = e.pointerId,
                   !.initialPointerOffset = e.pageX - s.pos,
                   !.emitted = "pointerdown"]

\* _handlePointerUp(e)
handlePointerUp(s, e) ==
    IF e.pointerId = s.associatedPointerId
    THEN [s EXCEPT !.associatedPointerId = NoPointer,
                   !.initialPointerOffset = 0,
                   !.emitted = "pointerup"]
    ELSE s

\* _handlePointerMove(e)
handlePointerMove(s, e) ==
    IF e.pointerId = s.associatedPointerId
    THEN [s EXCEPT !.pos = e.pageX - s.initialPointerOffset,
                   !.emitted = "pointermove"]
    ELSE s

\* the window emits an event of the given type: the handler runs if it is
\* registered
Handled(s, type, e) ==
    LET heard == [s EXCEPT !.emitted = "none",
                           !.event = [type |-> type, pointerId |-> e.pointerId]]
    IN  IF ~s.handlers THEN heard
        ELSE IF type = "pointerdown" THEN handlePointerDown(heard, e)
        ELSE IF type = "pointerup" THEN handlePointerUp(heard, e)
        ELSE handlePointerMove(heard, e)

\* the owner of the drag after the event, by the rule of the design
DragAfter(s, type, e) ==
    IF type = "pointerdown" /\ s.draggable /\ e.onStim THEN e.pointerId
    ELSE IF type = "pointerup" /\ e.pointerId = s.drag THEN NoPointer
    ELSE s.drag

setDraggable(draggable) ==
    /\ stim' = [DraggableSet(stim, draggable) EXCEPT
                    !.drag = IF draggable THEN @ ELSE NoPointer,
                    !.emitted = "none",
                    !.event = [type |-> "setDraggable", pointerId |-> NoPointer]]
    /\ UNCHANGED <<coreVars, gif, input>>

\* release(): this.draggable = false, then the release of the parent class,
\* which has no part in the drag
release ==
    /\ stim' = [DraggableSet(stim, FALSE) EXCEPT
                    !.drag = NoPointer,
                    !.emitted = "none",
                    !.event = [type |-> "release", pointerId |-> NoPointer]]
    /\ UNCHANGED <<coreVars, gif, input>>

\* a pointer is pressed, released or moved on the window; the stimulus
\* stays within the positions considered
pointer(type, e) ==
    /\ Handled(stim, type, e).pos \in Positions
    /\ stim' = [Handled(stim, type, e) EXCEPT !.drag = DragAfter(stim, type, e)]
    /\ UNCHANGED <<coreVars, gif, input>>

pointerdown(e) == pointer("pointerdown", e)

pointerup(e) == pointer("pointerup", e)

pointermove(e) == pointer("pointermove", e)

InitDrag ==
    /\ InitCore
    /\ \E pos \in Positions : stim = NewStim(pos)
    /\ gif = "none"
    /\ input = "none"

NextDrag ==
    \/ \E draggable \in BOOLEAN : setDraggable(draggable)
    \/ release
    \/ \E e \in PointerEvents : pointerdown(e)
    \/ \E e \in PointerEvents : pointerup(e)
    \/ \E e \in PointerEvents : pointermove(e)

SpecDrag == InitDrag /\ [][NextDrag]_vars

\* C39: the drag of a draggable stimulus belongs to the pointer whose
\* pointerdown on the stimulus started it: a pointermove or a pointerup of
\* another pointer neither moves the stimulus nor ends the drag; isDragging
\* is true exactly from that pointerdown to the pointerup of that pointer;
\* isDragging is false whenever the stimulus is not draggable, also after
\* setDraggable(false) or release() during a drag
C39_DragOwnedByPointer ==
    [][
       /\ IsDragging(stim') <=> stim'.drag # NoPointer
       /\ IsDragging(stim') => stim'.associatedPointerId = stim'.drag
       /\ ~stim'.draggable => ~IsDragging(stim')
       /\ (stim'.event.type \in {"pointermove", "pointerup"}
               /\ stim'.event.pointerId # stim.drag)
              => /\ stim'.pos = stim.pos
                 /\ IsDragging(stim') = IsDragging(stim)
    ]_vars

----------------------------------------------------------------------------
(* TextInput: the restriction of the text                                  *)

\* the longest text entered
MaxText == 2

Alphabet == {"a", "1"}

\* the texts: sequences of characters
Texts == UNION { [1..n -> Alphabet] : n \in 0..MaxText }

\* the patterns: a class of characters repeated (* or, with plus, +), with or
\* without ^ in front and $ behind
Patterns == [chars : (SUBSET Alphabet) \ {{}}, plus : BOOLEAN, start : BOOLEAN, end : BOOLEAN]

\* the arguments of the restrict setter: a RegExp with one of the patterns,
\* or a string of characters
Regexes ==
    { [isRegExp |-> TRUE, pattern |-> p] : p \in Patterns }
        \cup { [isRegExp |-> FALSE,
                pattern |-> [chars |-> c, plus |-> FALSE, start |-> FALSE, end |-> FALSE]] :
                   c \in (SUBSET Alphabet) \ {{}} }

\* _restrict_regex is undefined
NoRestriction ==
    [defined |-> FALSE,
     pattern |-> [chars |-> Alphabet, plus |-> FALSE, start |-> FALSE, end |-> FALSE]]

\* pattern.test(text): some run of characters of the class, not empty if +,
\* from the start of the text if ^, to its end if $
Test(pattern, text) ==
    \E i \in 1..(Len(text) + 1), j \in 0..Len(text) :
        /\ j >= i - 1
        /\ \A k \in i..j : text[k] \in pattern.chars
        /\ pattern.plus => j >= i
        /\ pattern.start => i = 1
        /\ pattern.end => j = Len(text)

\* the value the restrict setter stores: the source of a RegExp with ^ and $
\* added where they are missing, "^[" + regex + "]*$" for a string
Restriction(regex) ==
    [defined |-> TRUE,
     pattern |-> IF regex.isRegExp
                 THEN [regex.pattern EXCEPT !.start = TRUE, !.end = TRUE]
                 ELSE [chars |-> regex.pattern.chars, plus |-> FALSE,
                       start |-> TRUE, end |-> TRUE]]

\* new TextInput(styles): text is the value of the DOM element; lastGood
\* (history) is the last text the input held that satisfied the restriction,
\* the empty text if there was none; fresh (history) says that the input
\* has held no text yet; event and emits (history) are the last operation
\* and the 'input' events it emitted
NewInput ==
    [text |-> <<>>,
     restrict |-> NoRestriction,
     restrictValue |-> <<>>,
     disabled |-> FALSE,
     lastGood |-> <<>>,
     fresh |-> TRUE,
     event |-> "new",
     emits |-> 0]

\* _applyRestriction()
applyRestriction(t) ==
    IF Test(t.restrict.pattern, t.text)
    THEN [t EXCEPT !.restrictValue = t.text]
    ELSE [t EXCEPT !.text = t.restrictValue]

\* _onInputInput(e)
onInputInput(t) ==
    IF t.disabled THEN t
    ELSE LET r == IF t.restrict.defined THEN applyRestriction(t) ELSE t
         IN  [r EXCEPT !.emits = @ + 1]

\* the text held from now on, for the history
Held(t, text) ==
    [t EXCEPT !.fresh = FALSE,
              !.lastGood = IF t.restrict.defined /\ Test(t.restrict.pattern, text)
                           THEN text ELSE @]

\* the fields of the input
InputState(t) == [text |-> t.text, restrict |-> t.restrict,
                  restrictValue |-> t.restrictValue, disabled |-> t.disabled]

\* input.restrict = regex, on an input that has held no text yet
setRestrict(regex) ==
    /\ input.fresh /\ ~input.restrict.defined
    /\ input' = [input EXCEPT !.restrict = Restriction(regex),
                              !.event = "restrict", !.emits = 0]
    /\ UNCHANGED <<coreVars, gif, stim>>

\* input.disabled = disabled
setDisabled(disabled) ==
    /\ input' = [input EXCEPT !.disabled = disabled, !.event = "disabled", !.emits = 0]
    /\ UNCHANGED <<coreVars, gif, stim>>

\* input.text = text, by the script
setText(text) ==
    /\ input' = [Held(input, text) EXCEPT !.text = text, !.event = "text", !.emits = 0]
    /\ UNCHANGED <<coreVars, gif, stim>>

\* the participant edits the element, which then holds value, and the
\* element fires its input event; a disabled element is not edited
inputEvent(value) ==
    /\ input' = IF input.disabled
                THEN onInputInput([input EXCEPT !.event = "input", !.emits = 0])
                ELSE onInputInput([Held(input, value) EXCEPT
                                       !.text = value, !.event = "input", !.emits = 0])
    /\ UNCHANGED <<coreVars, gif, stim>>

InitInput ==
    /\ InitCore
    /\ input = NewInput
    /\ gif = "none"
    /\ stim = "none"

NextInput ==
    \/ \E regex \in Regexes : setRestrict(regex)
    \/ \E disabled \in BOOLEAN : setDisabled(disabled)
    \/ \E text \in Texts : setText(text)
    \/ \E value \in Texts : inputEvent(value)

SpecInput == InitInput /\ [][NextInput]_vars

\* C40: with a restriction set, after every input event the text satisfies
\* the pattern or is the last text that satisfied it (the empty text if
\* there was none); an input event received while the input is disabled
\* changes no field and emits no 'input' event
C40_RestrictedText ==
    [][
       input'.event = "input" =>
           IF input.disabled
           THEN InputState(input') = InputState(input) /\ input'.emits = 0
           ELSE input.restrict.defined =>
                    \/ Test(input'.restrict.pattern, input'.text)
                    \/ input'.text = input.lastGood
    ]_vars
====
